---- MODULE Spec2Model ----
(***************************************************************************)
(* Model of dlls/xinput1_3/main.c: the four controller slots, the link     *)
(* thread gamepad_update_thread_proc that exchanges rumble and gamepad     *)
(* state with the input server over UDP, the lazy exactly-once start of    *)
(* that thread, and the exported XInput* calls made by caller threads.     *)
(* Every shared-memory access that the code performs outside a critical    *)
(* section is a step of its own, so that the interleavings of the link     *)
(* thread and the callers are those of the program.                        *)
(***************************************************************************)
EXTENDS Integers, Sequences, FiniteSets, TLC

(***************************************************************************)
(* Program constants.                                                      *)
(***************************************************************************)
XUSER_MAX_COUNT == 4
XUSER_INDEX_ANY == 255
XINPUT_GAMEPAD_GUIDE == 1024
CONTROLLER_BUFFER_SIZE == 11
REQUEST_GET_CONNECTION == 1
REQUEST_GET_CONTROLLER_STATE == 2

A_BUTTON == 1
B_BUTTON == 2
X_BUTTON == 4
Y_BUTTON == 8
RB_BUTTON == 16
LB_BUTTON == 32
LS_BUTTON == 64
RS_BUTTON == 128
START_BUTTON == 1
SELECT_BUTTON == 2

XINPUT_GAMEPAD_DPAD_UP == 1
XINPUT_GAMEPAD_DPAD_DOWN == 2
XINPUT_GAMEPAD_DPAD_LEFT == 4
XINPUT_GAMEPAD_DPAD_RIGHT == 8
XINPUT_GAMEPAD_START == 16
XINPUT_GAMEPAD_BACK == 32
XINPUT_GAMEPAD_LEFT_THUMB == 64
XINPUT_GAMEPAD_RIGHT_THUMB == 128
XINPUT_GAMEPAD_LEFT_SHOULDER == 256
XINPUT_GAMEPAD_RIGHT_SHOULDER == 512
XINPUT_GAMEPAD_A == 4096
XINPUT_GAMEPAD_B == 8192
XINPUT_GAMEPAD_X == 16384
XINPUT_GAMEPAD_Y == 32768

XINPUT_DEVTYPE_GAMEPAD == 1
XINPUT_DEVSUBTYPE_GAMEPAD == 1
XINPUT_CAPS_FFB_SUPPORTED == 1
XINPUT_FLAG_GAMEPAD == 1
XINPUT_KEYSTROKE_KEYDOWN == 1
XINPUT_KEYSTROKE_KEYUP == 2

VK_PAD_A == 22528
VK_PAD_B == 22529
VK_PAD_X == 22530
VK_PAD_Y == 22531
VK_PAD_RSHOULDER == 22532
VK_PAD_LSHOULDER == 22533
VK_PAD_LTRIGGER == 22534
VK_PAD_RTRIGGER == 22535
VK_PAD_DPAD_UP == 22544
VK_PAD_DPAD_DOWN == 22545
VK_PAD_DPAD_LEFT == 22546
VK_PAD_DPAD_RIGHT == 22547
VK_PAD_START == 22548
VK_PAD_BACK == 22549
VK_PAD_LTHUMB_PRESS == 22550
VK_PAD_RTHUMB_PRESS == 22551
VK_PAD_LTHUMB_UP == 22560
VK_PAD_RTHUMB_UP == 22576

JS_STATE_OFF == 0
JS_STATE_LOW == 1
JS_STATE_HIGH == 2

(* the values of the error codes the calls return *)
ERROR_SUCCESS == 0
ERROR_NOT_SUPPORTED == 50
ERROR_BAD_ARGUMENTS == 160
ERROR_DEVICE_NOT_CONNECTED == 1167
ERROR_EMPTY == 4306

(* the receive timeouts the link tolerates before the mass disconnect *)
TimeoutLimit == 60

(***************************************************************************)
(* Bounds of the model.                                                    *)
(***************************************************************************)
(* state-exchange replies the input server sends in one run *)
MaxReplies == 3
(* calls one caller thread makes in one run *)
MaxCalls == 1
(* XInputGetKeystroke calls the polling thread of a keystroke workload     *)
(* makes in one run                                                        *)
MaxKeystrokeCalls == 10
(* state-exchange replies the link receives in a codec workload *)
MaxCodecReplies == 2
(* XInputGetKeystroke calls of the thread polling a stick that flips *)
MaxDiagonalCalls == 5
(* XInputGetKeystroke(XUSER_INDEX_ANY) calls of the polling thread *)
MaxAnyCalls == 4
(* calls of a polling thread that does not wait for the link *)
MaxTornCalls == 2
(* calls of a thread polling a button that stays held, at any time *)
MaxHeldCalls == 3
(* calls of the thread that starts the link and then polls beside another *)
MaxRaceCalls == 2
(* calls of the thread polling a slot whose reading changes in every part: *)
(* four events of the first reading, twenty of the second, two more calls  *)
MaxSweepCalls == 26
(* state-exchange replies the link receives in a keystroke workload *)
MaxKeystrokeReplies == 2

Slots == 0 .. (XUSER_MAX_COUNT - 1)
Threads == {"t1", "t2"}

(***************************************************************************)
(* Machine arithmetic.                                                     *)
(***************************************************************************)
Pow2(n) == 2 ^ n

(* a & b, a | b on w-bit unsigned values *)
RECURSIVE BitAnd(_, _, _)
BitAnd(a, b, w) ==
    IF w = 0 THEN 0
    ELSE (IF a % 2 = 1 /\ b % 2 = 1 THEN 1 ELSE 0)
         + 2 * BitAnd(a \div 2, b \div 2, w - 1)

RECURSIVE BitOr(_, _, _)
BitOr(a, b, w) ==
    IF w = 0 THEN 0
    ELSE (IF a % 2 = 1 \/ b % 2 = 1 THEN 1 ELSE 0)
         + 2 * BitOr(a \div 2, b \div 2, w - 1)

And16(a, b) == BitAnd(a, b, 16)
Or16(a, b) == BitOr(a, b, 16)
(* a & ~m on 16 bits *)
AndNot16(a, m) == a - BitAnd(a, m, 16)

(* What the build decides.  char is signed or unsigned as the target ABI   *)
(* has it.  With a signed char scale_value is handed 65408 .. 65535 for    *)
(* the bytes 128 .. 255 and its product input * 65535 overflows int, which *)
(* is undefined: the multiplication instruction wraps, and a compiler that *)
(* relies on the absence of overflow folds (input * 65535) / 255 into      *)
(* input * 257.                                                            *)
Builds == {"unsigned char", "signed char, wrapped", "signed char, folded"}

(* the value of a byte read through a char lvalue *)
CharOf(b, build) ==
    IF build # "unsigned char" /\ b >= 128 THEN b - 256 ELSE b
(* conversion of an int to unsigned short, to short, to int (wrapping) *)
ToU16(v) == v % 65536
ToS16(v) == LET u == v % 65536 IN IF u >= 32768 THEN u - 65536 ELSE u
(* a * b in a 32-bit int, for 0 <= a, b < 2^16: the product wraps.  With   *)
(* a = ah * 2^8 + al the sum (ah * b) * 2^8 + al * b is formed without     *)
(* leaving the 32-bit range                                                *)
MulInt32(a, b) ==
    LET x == (a \div 256) * b
        y == (a % 256) * b
        xs == IF x >= Pow2(23) THEN (x - Pow2(24)) * 256 ELSE x * 256
    IN  IF xs > 2147483647 - y
        THEN ((((xs - 2147483647) - 1) + y) - 2147483647) - 1
        ELSE xs + y
ToU8(v) == v % 256
(* C division truncates toward zero *)
CDiv(a, b) == IF a >= 0 THEN a \div b ELSE -((-a) \div b)

(***************************************************************************)
(* Data of one controller slot (struct xinput_controller).                 *)
(***************************************************************************)
ZeroGamepad ==
    [wButtons |-> 0, bLeftTrigger |-> 0, bRightTrigger |-> 0,
     sThumbLX |-> 0, sThumbLY |-> 0, sThumbRX |-> 0, sThumbRY |-> 0]

ZeroState == [dwPacketNumber |-> 0, Gamepad |-> ZeroGamepad]

ZeroVibration == [wLeftMotorSpeed |-> 0, wRightMotorSpeed |-> 0]

ZeroCaps ==
    [Type |-> 0, SubType |-> 0, Flags |-> 0,
     Gamepad |-> ZeroGamepad, Vibration |-> ZeroVibration]

(* the capabilities controller_check_caps computes: sizeof(BYTE) = 1 and   *)
(* sizeof(SHORT) = 2 give (1 << 2) - 1 and (1 << 3) - 1                    *)
controller_check_caps ==
    [Type |-> XINPUT_DEVTYPE_GAMEPAD,
     SubType |-> XINPUT_DEVSUBTYPE_GAMEPAD,
     Flags |-> XINPUT_CAPS_FFB_SUPPORTED,
     Gamepad |-> [wButtons |-> 65535,
                  bLeftTrigger |-> Pow2(1 + 1) - 1,
                  bRightTrigger |-> Pow2(1 + 1) - 1,
                  sThumbLX |-> Pow2(2 + 1) - 1, sThumbLY |-> Pow2(2 + 1) - 1,
                  sThumbRX |-> Pow2(2 + 1) - 1, sThumbRY |-> Pow2(2 + 1) - 1],
     Vibration |-> [wLeftMotorSpeed |-> 255, wRightMotorSpeed |-> 255]]

(* a slot as the static initialiser leaves it: the critical section free,  *)
(* every other field zero                                                  *)
InitController ==
    [crit |-> "free", caps |-> ZeroCaps, state |-> ZeroState,
     last_keystroke |-> ZeroGamepad, vibration |-> ZeroVibration,
     device |-> 0, enabled |-> FALSE, connected |-> FALSE]

(***************************************************************************)
(* Wire codec.  A sub-record is the sequence of the 11 bytes of one        *)
(* controller, buffer[k] being rec[k + 1].                                 *)
(***************************************************************************)
Byte(rec, k) == rec[k + 1]

(* short scale_value(unsigned short input): the product is computed in a   *)
(* 32-bit int, the sum is converted to short                               *)
scale_value(input, build) ==
    IF build = "signed char, folded"
    THEN ToS16(-32768 + input * 257)
    ELSE ToS16(-32768 + CDiv(MulInt32(input, 65535), 255))

(* the argument the call scale_value(buffer[k]) passes: the char is        *)
(* converted to unsigned short                                             *)
AxisArg(rec, k, build) == ToU16(CharOf(Byte(rec, k), build))

(* the lines "if (buffer[b] & m) wButtons |= bits", in the code's order *)
ButtonLines ==
    << [b |-> 2, m |-> A_BUTTON, bits |-> XINPUT_GAMEPAD_A],
       [b |-> 2, m |-> B_BUTTON, bits |-> XINPUT_GAMEPAD_B],
       [b |-> 2, m |-> X_BUTTON, bits |-> XINPUT_GAMEPAD_X],
       [b |-> 2, m |-> Y_BUTTON, bits |-> XINPUT_GAMEPAD_Y],
       [b |-> 2, m |-> LB_BUTTON, bits |-> XINPUT_GAMEPAD_LEFT_SHOULDER],
       [b |-> 2, m |-> RB_BUTTON, bits |-> XINPUT_GAMEPAD_RIGHT_SHOULDER],
       [b |-> 2, m |-> LS_BUTTON, bits |-> XINPUT_GAMEPAD_LEFT_THUMB],
       [b |-> 2, m |-> RS_BUTTON, bits |-> XINPUT_GAMEPAD_RIGHT_THUMB],
       [b |-> 3, m |-> SELECT_BUTTON, bits |-> XINPUT_GAMEPAD_BACK],
       [b |-> 3, m |-> START_BUTTON, bits |-> XINPUT_GAMEPAD_START] >>

DpadBitsNoDiagonal(c) ==
    CASE c \in {1, 2} -> XINPUT_GAMEPAD_DPAD_UP
      [] c \in {3, 4} -> XINPUT_GAMEPAD_DPAD_RIGHT
      [] c \in {5, 6} -> XINPUT_GAMEPAD_DPAD_DOWN
      [] c \in {7, 8} -> XINPUT_GAMEPAD_DPAD_LEFT
      [] OTHER -> 0
(* the switch on buffer[4], a char: the bits of the d-pad code *)
DpadBits(c) ==
    CASE c = 1 -> XINPUT_GAMEPAD_DPAD_UP
      [] c = 2 -> XINPUT_GAMEPAD_DPAD_UP + XINPUT_GAMEPAD_DPAD_RIGHT
      [] c = 3 -> XINPUT_GAMEPAD_DPAD_RIGHT
      [] c = 4 -> XINPUT_GAMEPAD_DPAD_RIGHT + XINPUT_GAMEPAD_DPAD_DOWN
      [] c = 5 -> XINPUT_GAMEPAD_DPAD_DOWN
      [] c = 6 -> XINPUT_GAMEPAD_DPAD_DOWN + XINPUT_GAMEPAD_DPAD_LEFT
      [] c = 7 -> XINPUT_GAMEPAD_DPAD_LEFT
      [] c = 8 -> XINPUT_GAMEPAD_DPAD_LEFT + XINPUT_GAMEPAD_DPAD_UP
      [] OTHER -> 0

(* The stores read_controller_state makes into controller->state.Gamepad,  *)
(* in program order: wButtons = 0, one |= per line whose condition holds,  *)
(* the four axes, the two triggers.                                        *)
DecodeWrites(rec, build) ==
    LET line(n) == ButtonLines[n]
        hit == SelectSeq([n \in 1 .. Len(ButtonLines) |-> n],
                         LAMBDA n : And16(Byte(rec, line(n).b), line(n).m) # 0)
        dpad == DpadBits(CharOf(Byte(rec, 4), build))
    IN  << [f |-> "wButtons", op |-> "set", v |-> 0] >>
        \o [n \in 1 .. Len(hit) |->
              [f |-> "wButtons", op |-> "or", v |-> line(hit[n]).bits]]
        \o (IF dpad # 0 THEN << [f |-> "wButtons", op |-> "or", v |-> dpad] >>
            ELSE << >>)
        \o << [f |-> "sThumbLX", op |-> "set", v |->
                 scale_value(AxisArg(rec, 5, build), build)],
              [f |-> "sThumbLY", op |-> "set", v |->
                 scale_value(AxisArg(rec, 6, build), build)],
              [f |-> "sThumbRX", op |-> "set", v |->
                 scale_value(AxisArg(rec, 7, build), build)],
              [f |-> "sThumbRY", op |-> "set", v |->
                 scale_value(AxisArg(rec, 8, build), build)],
              [f |-> "bLeftTrigger", op |-> "set", v |->
                 ToU8(CharOf(Byte(rec, 9), build))],
              [f |-> "bRightTrigger", op |-> "set", v |->
                 ToU8(CharOf(Byte(rec, 10), build))] >>

(* one store applied to a XINPUT_GAMEPAD *)
ApplyWrite(g, w) ==
    [g EXCEPT ![w.f] = IF w.op = "or" THEN Or16(g[w.f], w.v)
                       ELSE IF w.op = "andnot" THEN AndNot16(g[w.f], w.v)
                       ELSE w.v]

RECURSIVE ApplyWrites(_, _, _)
ApplyWrites(g, ws, n) ==
    IF n > Len(ws) THEN g ELSE ApplyWrites(ApplyWrite(g, ws[n]), ws, n + 1)

(* the reading a complete decode of rec leaves in the gamepad *)
DecodedGamepad(rec, build) ==
    ApplyWrites(ZeroGamepad, DecodeWrites(rec, build), 1)

MotorByteShifted(speed) == ToU8(speed \div 256)
(* the motor byte of an outgoing frame: (int)(speed / 257) stored in a char *)
MotorByte(speed) == ToU8(speed \div 257)

(***************************************************************************)
(* Inputs.  The sub-records the input server puts in its replies, and the  *)
(* workloads: which calls the caller threads make and what recvfrom        *)
(* returns in one run.                                                     *)
(***************************************************************************)
(* slot not populated *)
RecOff == << 2, 0, 0, 0, 0, 0, 0, 0, 0, 0, 0 >>
(* A held, sticks at byte 0, triggers released *)
RecA == << 2, 1, 1, 0, 0, 0, 0, 0, 0, 0, 0 >>
(* A and B held, START, d-pad up-right, sticks moved, left trigger pulled *)
RecAB == << 2, 1, 3, 1, 2, 100, 255, 127, 128, 40, 0 >>

(* as RecAB, with the right stick down-right and the right trigger pulled *)
RecFull == << 2, 1, 3, 1, 2, 100, 255, 255, 0, 40, 200 >>
(* A held, sticks centred, triggers released *)
RecAOnly == << 2, 1, 1, 0, 0, 127, 127, 127, 127, 0, 0 >>
(* d-pad up-left, both sticks up-right, nothing else *)
RecSweepFrom == << 2, 1, 0, 0, 8, 255, 255, 255, 255, 0, 0 >>
(* the ten buttons, d-pad down-right, both sticks down-left, both triggers *)
RecSweepTo == << 2, 1, 255, 3, 4, 0, 0, 0, 0, 200, 200 >>
(* left stick up-right, right stick centred *)
RecHH == << 2, 1, 0, 0, 0, 255, 255, 127, 127, 0, 0 >>
(* left stick down-left, right stick centred *)
RecLL == << 2, 1, 0, 0, 0, 0, 0, 127, 127, 0, 0 >>

(* One sub-record for each byte value b: the button byte is b, so that     *)
(* every set of buttons occurs; the system byte runs through 0 .. 31; the  *)
(* d-pad code runs through 0 .. 9 and six larger values; the four axis     *)
(* bytes are b, 255 - b, b + 128 and b + 64 (mod 256); the triggers are b  *)
(* and 255 - b                                                             *)
DpadCodes == << 0, 1, 2, 3, 4, 5, 6, 7, 8, 9, 16, 100, 128, 129, 200, 255 >>

RecByte(b) ==
    << 2, 1, b, b \div 8, DpadCodes[(b % 16) + 1],
       b, 255 - b, (b + 128) % 256, (b + 64) % 256, b, 255 - b >>

Bytes == 0 .. 255

(* the sub-records of the model, and the stores of the decode of each *)
SubRecords ==
    {RecOff, RecA, RecAOnly, RecAB, RecFull, RecHH, RecLL, RecSweepFrom, RecSweepTo} \cup {RecByte(b) : b \in Bytes}
WritesOf == [rec \in SubRecords, build \in Builds |-> DecodeWrites(rec, build)]

(* a payload: the sub-record of each slot *)
Payload(r0, r1) == [i \in Slots |-> IF i = 0 THEN r0 ELSE IF i = 1 THEN r1 ELSE RecOff]

VARIABLES
    scenario,          \* the workload of this run
    controllers,       \* controllers[XUSER_MAX_COUNT]
    xinput_is_ready,   \* static bool xinput_is_ready
    start_event,       \* "null" before CreateEventA, then signalled or not
    init_once,         \* INIT_ONCE of start_update_thread
    lpc,               \* where the link thread is
    li,                \* its loop variable i
    lk,                \* the next store of read_controller_state
    lafter,            \* the loop a connect or disconnect returns to
    timeoutCounter,    \* int timeoutCounter
    buffer,            \* the payload of the reply being processed
    sent,              \* the last frame handed to sendto
    pc,                \* where each caller thread is
    call,              \* the call each caller thread makes or last made
    ret,               \* what that call returned
    out,               \* what it stored through its output pointer
    ci,                \* the loop variable of the call
    ncalls,            \* calls begun by each caller thread
    nreplies,          \* state-exchange replies received
    snapshots,         \* per slot, the states complete decodes and connects left
    first_snapshot,    \* the link has processed a state-exchange reply
    pulsed,            \* the link has raised the flag in a timeout pause
    handshaken,        \* the link has received a reply to its connection request
    at_reply,          \* per slot, dwPacketNumber and connected as the reply arrived
    silent,            \* consecutive receive timeouts, counted up to TimeoutLimit + 1
    entry,             \* per caller thread, what held when it entered its call
    found,             \* per caller thread, what check_for_keystroke has decided
                       \* and is about to store in last_keystroke
    keys,              \* per caller thread, what its check_for_keystroke calls
                       \* returned and the reading they were made on
    crashed            \* the process has faulted

linkVars == << lpc, li, lk, lafter, timeoutCounter, buffer, sent >>
callVars == << pc, call, ret, out, ci, ncalls, entry, found, keys >>
ghostVars == << nreplies, snapshots, first_snapshot, pulsed, handshaken,
               at_reply, silent >>
vars == << scenario, controllers, xinput_is_ready, start_event, init_once,
           linkVars, callVars, ghostVars, crashed >>

NoCall == [op |-> "none", index |-> 0, ptr |-> FALSE, x |-> 0, y |-> 0]
NoOut == [kind |-> "none"]
NoFrame == << >>
NoFound == [ret |-> 0, keystroke |-> << >>, stores |-> << >>, cur |-> << >>]

(***************************************************************************)
(* The link thread, gamepad_update_thread_proc.                            *)
(***************************************************************************)
BUFFER_SIZE == CONTROLLER_BUFFER_SIZE * 4

(* an outgoing frame: memset 0, byte 0 the kind, bytes 1-8 the motors *)
Frame(kind, motors) ==
    [n \in 1 .. BUFFER_SIZE |->
        IF n = 1 THEN kind ELSE IF n <= 1 + Len(motors) THEN motors[n - 1] ELSE 0]

(* the motor bytes, slot by slot: left, right *)
MotorBytes(cs) ==
    [n \in 1 .. 2 * XUSER_MAX_COUNT |->
        LET v == cs[(n - 1) \div 2].vibration
        IN  MotorByte(IF n % 2 = 1 THEN v.wLeftMotorSpeed ELSE v.wRightMotorSpeed)]

TimeoutExceededLate(counter) == counter > TimeoutLimit + 1
(* if (timeoutCounter > 60) *)
TimeoutExceeded(counter) == counter > TimeoutLimit

ReceivedCounterKept(counter) == counter
(* timeoutCounter = 0 after a recvfrom that did not fail *)
ReceivedCounter(counter) == 0

NextPacketNumberTwice(n) == n + 2
(* state->dwPacketNumber++ (a DWORD: it wraps at 2^32, which MaxReplies    *)
(* increments never reach)                                                 *)
NextPacketNumber(n) == n + 1

(* the stores of the decode of rec still to be made that change g, from    *)
(* store number k on                                                       *)
PendingWrites(g, rec, k, build) ==
    LET ws == WritesOf[rec, build]
    IN  {n \in k .. Len(ws) : ApplyWrite(g, ws[n]) # g}

Min(S) == CHOOSE n \in S : \A m \in S : n <= m

LinkUnchanged == UNCHANGED << scenario, init_once, callVars, crashed >>

(* WSAStartup: on failure the thread returns 1 *)
LinkWSAStartup ==
    /\ ~crashed /\ lpc = "wsa"
    /\ \/ lpc' = "socket"
       \/ /\ "startup" \in scenario.faults
          /\ lpc' = "exited"
    /\ UNCHANGED << controllers, xinput_is_ready, start_event, li, lk, lafter,
                    timeoutCounter, buffer, sent, ghostVars >>
    /\ LinkUnchanged

(* socket(): on failure the thread returns 1; then setsockopt, whose       *)
(* failure is only reported                                                *)
LinkSocket ==
    /\ ~crashed /\ lpc = "socket"
    /\ \/ lpc' = "connreq"
       \/ /\ "startup" \in scenario.faults
          /\ lpc' = "exited"
    /\ UNCHANGED << controllers, xinput_is_ready, start_event, li, lk, lafter,
                    timeoutCounter, buffer, sent, ghostVars >>
    /\ LinkUnchanged

ConnectionRequestOfState == Frame(REQUEST_GET_CONTROLLER_STATE, << >>)
(* memset(buffer, 0, BUFFER_SIZE); buffer[0] = REQUEST_GET_CONNECTION *)
ConnectionRequest == Frame(REQUEST_GET_CONNECTION, << >>)

(* the connection request sent before the loop *)
LinkConnectionRequest ==
    /\ ~crashed /\ lpc = "connreq"
    /\ sent' = ConnectionRequest
    /\ lpc' = "send"
    /\ UNCHANGED << controllers, xinput_is_ready, start_event, li, lk, lafter,
                    timeoutCounter, buffer, ghostVars >>
    /\ LinkUnchanged

(* top of the loop: the rumble targets are read and the frame is sent *)
LinkSendState ==
    /\ ~crashed /\ lpc = "send"
    /\ sent' = Frame(REQUEST_GET_CONTROLLER_STATE, MotorBytes(controllers))
    /\ lpc' = "recv"
    /\ UNCHANGED << controllers, xinput_is_ready, start_event, li, lk, lafter,
                    timeoutCounter, buffer, ghostVars >>
    /\ LinkUnchanged

(* recvfrom fails with WSAETIMEDOUT *)
LinkRecvTimeout ==
    /\ ~crashed /\ lpc = "recv"
    /\ "timeout" \in scenario.recv
    /\ timeoutCounter' = timeoutCounter + 1
    /\ silent' = IF silent > TimeoutLimit THEN silent ELSE silent + 1
    /\ IF TimeoutExceeded(timeoutCounter')
       THEN lpc' = "to_loop" /\ li' = 0
       ELSE lpc' = "send" /\ li' = li
    /\ UNCHANGED << controllers, xinput_is_ready, start_event, lk, lafter,
                    buffer, sent, nreplies, snapshots, first_snapshot, pulsed, handshaken, at_reply >>
    /\ LinkUnchanged

(* recvfrom fails with another error: continue *)
LinkRecvError ==
    /\ ~crashed /\ lpc = "recv"
    /\ "error" \in scenario.recv
    /\ lpc' = "send"
    /\ silent' = 0
    /\ UNCHANGED << controllers, xinput_is_ready, start_event, li, lk, lafter,
                    timeoutCounter, buffer, sent, nreplies, snapshots,
                    first_snapshot, pulsed, handshaken, at_reply >>
    /\ LinkUnchanged

(* a reply of kind REQUEST_GET_CONNECTION, or of a kind the switch ignores *)
LinkRecvAck ==
    /\ ~crashed /\ lpc = "recv"
    /\ \/ /\ "ack" \in scenario.recv
          /\ lpc' = "setevent"
          /\ handshaken' = TRUE
       \/ /\ "other" \in scenario.recv
          /\ lpc' = "send"
          /\ handshaken' = handshaken
    /\ timeoutCounter' = ReceivedCounter(timeoutCounter)
    /\ silent' = 0
    /\ UNCHANGED << controllers, xinput_is_ready, start_event, li, lk, lafter,
                    buffer, sent, nreplies, snapshots, first_snapshot, pulsed, at_reply >>
    /\ LinkUnchanged

(* SetEvent(start_event) *)
LinkSetEvent ==
    /\ ~crashed /\ lpc = "setevent"
    /\ start_event' = "set"
    /\ lpc' = "send"
    /\ UNCHANGED << controllers, xinput_is_ready, li, lk, lafter,
                    timeoutCounter, buffer, sent, ghostVars >>
    /\ LinkUnchanged

(* a reply of kind REQUEST_GET_CONTROLLER_STATE: the four sub-records *)
LinkRecvState ==
    /\ ~crashed /\ lpc = "recv"
    /\ nreplies < scenario.replies
    /\ \E p \in scenario.payloads :
          buffer' = p
    /\ timeoutCounter' = ReceivedCounter(timeoutCounter)
    /\ silent' = 0
    /\ li' = 0
    /\ lpc' = "rep_loop"
    /\ nreplies' = nreplies + 1
    /\ at_reply' = [i \in Slots |->
                       [dwPacketNumber |-> controllers[i].state.dwPacketNumber,
                        connected |-> controllers[i].connected]]
    /\ UNCHANGED << controllers, xinput_is_ready, start_event, lk, lafter, sent,
                    snapshots, first_snapshot, pulsed, handshaken >>
    /\ LinkUnchanged

(* for (i = 0; i < 4; i++): the tests on the connectivity byte and on      *)
(* controllers[i].connected                                                *)
LinkReplyLoop ==
    /\ ~crashed /\ lpc = "rep_loop" /\ li < XUSER_MAX_COUNT
    /\ IF Byte(buffer[li], 1) # 0
       THEN /\ lpc' = IF controllers[li].connected THEN "decode" ELSE "conn_state"
            /\ li' = li
            /\ lafter' = lafter
       ELSE IF controllers[li].connected
            THEN lpc' = "disc_connected" /\ lafter' = "rep_loop" /\ li' = li
            ELSE lpc' = lpc /\ lafter' = lafter /\ li' = li + 1
    /\ lk' = 1
    /\ UNCHANGED << controllers, xinput_is_ready, start_event,
                    timeoutCounter, buffer, sent, ghostVars >>
    /\ LinkUnchanged

ReadyAfterReplyKept(flag) == flag
(* xinput_is_ready = true at the end of case REQUEST_GET_CONTROLLER_STATE *)
ReadyAfterReply(flag) == TRUE

(* after the loop: xinput_is_ready = true *)
LinkReplyReady ==
    /\ ~crashed /\ lpc = "rep_loop" /\ li = XUSER_MAX_COUNT
    /\ xinput_is_ready' = ReadyAfterReply(xinput_is_ready)
    /\ first_snapshot' = TRUE
    /\ lpc' = "send"
    /\ UNCHANGED << controllers, start_event, li, lk, lafter, timeoutCounter,
                    buffer, sent, nreplies, snapshots, pulsed, handshaken, at_reply, silent >>
    /\ LinkUnchanged

LeaveCriticalSectionSkipped(crit) == crit
(* LeaveCriticalSection(&controller->crit) by the thread that holds it *)
LeaveCriticalSection(crit) == "free"

DisconnectedCapsKept(caps) == caps
(* memset(&controller->caps, 0, sizeof(controller->caps)) *)
DisconnectedCaps(caps) == ZeroCaps

(* controller_connect: EnterCriticalSection; memset(&state, 0) *)
LinkConnectState ==
    /\ ~crashed /\ lpc = "conn_state"
    /\ controllers[li].crit = "free"
    /\ controllers' = [controllers EXCEPT ![li].crit = "link",
                                          ![li].state = ZeroState]
    /\ snapshots' = [snapshots EXCEPT ![li] = @ \cup {ZeroState}]
    /\ lpc' = "conn_caps"
    /\ UNCHANGED << xinput_is_ready, start_event, li, lk, lafter, timeoutCounter,
                    buffer, sent, nreplies, first_snapshot, pulsed, handshaken, at_reply, silent >>
    /\ LinkUnchanged

(* controller_connect: controller_check_caps *)
LinkConnectCaps ==
    /\ ~crashed /\ lpc = "conn_caps"
    /\ controllers' = [controllers EXCEPT ![li].caps = controller_check_caps]
    /\ lpc' = "conn_connected"
    /\ UNCHANGED << xinput_is_ready, start_event, li, lk, lafter, timeoutCounter,
                    buffer, sent, ghostVars >>
    /\ LinkUnchanged

(* controller_connect: connected = TRUE *)
LinkConnectConnected ==
    /\ ~crashed /\ lpc = "conn_connected"
    /\ controllers' = [controllers EXCEPT ![li].connected = TRUE]
    /\ lpc' = "conn_enabled"
    /\ UNCHANGED << xinput_is_ready, start_event, li, lk, lafter, timeoutCounter,
                    buffer, sent, ghostVars >>
    /\ LinkUnchanged

ConnectEnabledKept(enabled) == enabled
(* the value controller_connect stores in enabled, whatever it held *)
ConnectEnabled(enabled) == TRUE

(* controller_connect: enabled = TRUE; LeaveCriticalSection *)
LinkConnectEnabled ==
    /\ ~crashed /\ lpc = "conn_enabled"
    /\ controllers' = [controllers EXCEPT ![li].enabled = ConnectEnabled(@),
                                          ![li].crit = LeaveCriticalSection(@)]
    /\ lpc' = "decode"
    /\ UNCHANGED << xinput_is_ready, start_event, li, lk, lafter, timeoutCounter,
                    buffer, sent, ghostVars >>
    /\ LinkUnchanged

(* controller_disconnect: EnterCriticalSection; connected = FALSE *)
LinkDisconnectConnected ==
    /\ ~crashed /\ lpc = "disc_connected"
    /\ controllers[li].crit = "free"
    /\ controllers' = [controllers EXCEPT ![li].crit = "link",
                                          ![li].connected = FALSE]
    /\ lpc' = "disc_enabled"
    /\ UNCHANGED << xinput_is_ready, start_event, li, lk, lafter, timeoutCounter,
                    buffer, sent, ghostVars >>
    /\ LinkUnchanged

(* controller_disconnect: enabled = FALSE *)
LinkDisconnectEnabled ==
    /\ ~crashed /\ lpc = "disc_enabled"
    /\ controllers' = [controllers EXCEPT ![li].enabled = FALSE]
    /\ lpc' = "disc_caps"
    /\ UNCHANGED << xinput_is_ready, start_event, li, lk, lafter, timeoutCounter,
                    buffer, sent, ghostVars >>
    /\ LinkUnchanged

(* controller_disconnect: memset(&caps, 0); LeaveCriticalSection; the      *)
(* calling loop goes on with the next slot                                 *)
LinkDisconnectCaps ==
    /\ ~crashed /\ lpc = "disc_caps"
    /\ controllers' = [controllers EXCEPT ![li].caps = DisconnectedCaps(@),
                                          ![li].crit = LeaveCriticalSection(@)]
    /\ lpc' = lafter
    /\ li' = li + 1
    /\ UNCHANGED << xinput_is_ready, start_event, lk, lafter, timeoutCounter,
                    buffer, sent, ghostVars >>
    /\ LinkUnchanged

(* read_controller_state: the next store into state.Gamepad that changes   *)
(* it, made outside the critical section                                   *)
LinkDecodeStore ==
    /\ ~crashed /\ lpc = "decode"
    /\ LET g == controllers[li].state.Gamepad
           pend == PendingWrites(g, buffer[li], lk, scenario.build)
       IN  /\ pend # {}
           /\ controllers' =
                 [controllers EXCEPT ![li].state.Gamepad =
                     ApplyWrite(g, WritesOf[buffer[li], scenario.build][Min(pend)])]
           /\ lk' = Min(pend) + 1
    /\ UNCHANGED << xinput_is_ready, start_event, lpc, li, lafter, timeoutCounter,
                    buffer, sent, ghostVars >>
    /\ LinkUnchanged

(* read_controller_state: EnterCriticalSection; dwPacketNumber++;          *)
(* LeaveCriticalSection; the loop goes on with the next slot               *)
LinkDecodePacket ==
    /\ ~crashed /\ lpc = "decode"
    /\ PendingWrites(controllers[li].state.Gamepad, buffer[li], lk,
                     scenario.build) = {}
    /\ controllers[li].crit = "free"
    /\ controllers' = [controllers EXCEPT ![li].state.dwPacketNumber =
                                              NextPacketNumber(@)]
    /\ snapshots' = [snapshots EXCEPT ![li] = @ \cup {controllers'[li].state}]
    /\ lpc' = "rep_loop"
    /\ li' = li + 1
    /\ UNCHANGED << xinput_is_ready, start_event, lk, lafter, timeoutCounter,
                    buffer, sent, nreplies, first_snapshot, pulsed, handshaken, at_reply, silent >>
    /\ LinkUnchanged

(* the loop of the timeout branch: if (controllers[i].connected) *)
LinkTimeoutLoop ==
    /\ ~crashed /\ lpc = "to_loop" /\ li < XUSER_MAX_COUNT
    /\ IF controllers[li].connected
       THEN lpc' = "disc_connected" /\ lafter' = "to_loop" /\ li' = li
       ELSE lpc' = lpc /\ lafter' = lafter /\ li' = li + 1
    /\ UNCHANGED << controllers, xinput_is_ready, start_event, lk,
                    timeoutCounter, buffer, sent, ghostVars >>
    /\ LinkUnchanged

(* xinput_is_ready = true; timeoutCounter = 0; Sleep(250) begins *)
LinkTimeoutReady ==
    /\ ~crashed /\ lpc = "to_loop" /\ li = XUSER_MAX_COUNT
    /\ xinput_is_ready' = TRUE
    /\ pulsed' = TRUE
    /\ timeoutCounter' = 0
    /\ lpc' = "to_sleep"
    /\ UNCHANGED << controllers, start_event, li, lk, lafter, buffer, sent,
                    nreplies, snapshots, first_snapshot, handshaken, at_reply,
                    silent >>
    /\ LinkUnchanged

(* Sleep(250) ends; xinput_is_ready = false *)
LinkTimeoutSleepEnd ==
    /\ ~crashed /\ lpc = "to_sleep"
    /\ xinput_is_ready' = FALSE
    /\ lpc' = "send"
    /\ UNCHANGED << controllers, start_event, li, lk, lafter, timeoutCounter,
                    buffer, sent, ghostVars >>
    /\ LinkUnchanged

LinkNext ==
    \/ LinkWSAStartup \/ LinkSocket \/ LinkConnectionRequest \/ LinkSendState
    \/ LinkRecvTimeout \/ LinkRecvError \/ LinkRecvAck \/ LinkSetEvent
    \/ LinkRecvState \/ LinkReplyLoop \/ LinkReplyReady
    \/ LinkConnectState \/ LinkConnectCaps \/ LinkConnectConnected
    \/ LinkConnectEnabled \/ LinkDisconnectConnected \/ LinkDisconnectEnabled
    \/ LinkDisconnectCaps \/ LinkDecodeStore \/ LinkDecodePacket
    \/ LinkTimeoutLoop \/ LinkTimeoutReady \/ LinkTimeoutSleepEnd

(***************************************************************************)
(* Keystroke engine.                                                       *)
(***************************************************************************)
joystick_state(value) ==
    IF value > 20000 THEN JS_STATE_HIGH
    ELSE IF value < -20000 THEN JS_STATE_LOW
    ELSE JS_STATE_OFF

js_vk_offs(x, y) ==
    IF y = JS_STATE_OFF
    THEN (IF x = JS_STATE_LOW THEN 3 ELSE 2)
    ELSE IF y = JS_STATE_HIGH
    THEN (IF x = JS_STATE_OFF THEN 0 ELSE IF x = JS_STATE_LOW THEN 4 ELSE 5)
    ELSE (IF x = JS_STATE_OFF THEN 1 ELSE IF x = JS_STATE_LOW THEN 7 ELSE 6)

trigger_is_on(value) == value > 30

(* the virtual key of an axis pair, 0 when both axes are centred *)
StickVk(x, y, base_vk) ==
    IF joystick_state(x) # JS_STATE_OFF \/ joystick_state(y) # JS_STATE_OFF
    THEN base_vk + js_vk_offs(joystick_state(x), joystick_state(y))
    ELSE 0

Keystroke(vk, flags, index) ==
    [VirtualKey |-> vk, Unicode |-> 0, Flags |-> flags,
     UserIndex |-> index, HidCode |-> 0]

NoKeystroke == Keystroke(0, 0, 0)

RecentredKept(axis) == axis
(* *last_x = 0; *last_y = 0 after a KEYUP *)
Recentred(axis) == 0

(* check_joystick_keystroke: the return value, the keystroke written on    *)
(* success, and the values left in *last_x and *last_y                     *)
check_joystick_keystroke(index, cur_x, cur_y, last_x, last_y, base_vk) ==
    LET cur_vk == StickVk(cur_x, cur_y, base_vk)
        last_vk == StickVk(last_x, last_y, base_vk)
    IN  IF cur_vk # last_vk
        THEN IF last_vk # 0
             THEN [ret |-> ERROR_SUCCESS,
                   keystroke |-> Keystroke(last_vk, XINPUT_KEYSTROKE_KEYUP, index),
                   last_x |-> Recentred(last_x), last_y |-> Recentred(last_y)]
             ELSE [ret |-> ERROR_SUCCESS,
                   keystroke |-> Keystroke(cur_vk, XINPUT_KEYSTROKE_KEYDOWN, index),
                   last_x |-> cur_x, last_y |-> cur_y]
        ELSE [ret |-> ERROR_EMPTY, keystroke |-> NoKeystroke,
              last_x |-> cur_x, last_y |-> cur_y]

LastDiffering(differ) == CHOOSE n \in differ : \A m \in differ : m <= n
(* the loop over buttons[] stops at the first entry whose bit differs *)
FirstDiffering(differ) == Min(differ)

(* the table buttons[] of check_for_keystroke *)
KeystrokeButtons ==
    << [mask |-> XINPUT_GAMEPAD_DPAD_UP, vk |-> VK_PAD_DPAD_UP],
       [mask |-> XINPUT_GAMEPAD_DPAD_DOWN, vk |-> VK_PAD_DPAD_DOWN],
       [mask |-> XINPUT_GAMEPAD_DPAD_LEFT, vk |-> VK_PAD_DPAD_LEFT],
       [mask |-> XINPUT_GAMEPAD_DPAD_RIGHT, vk |-> VK_PAD_DPAD_RIGHT],
       [mask |-> XINPUT_GAMEPAD_START, vk |-> VK_PAD_START],
       [mask |-> XINPUT_GAMEPAD_BACK, vk |-> VK_PAD_BACK],
       [mask |-> XINPUT_GAMEPAD_LEFT_THUMB, vk |-> VK_PAD_LTHUMB_PRESS],
       [mask |-> XINPUT_GAMEPAD_RIGHT_THUMB, vk |-> VK_PAD_RTHUMB_PRESS],
       [mask |-> XINPUT_GAMEPAD_LEFT_SHOULDER, vk |-> VK_PAD_LSHOULDER],
       [mask |-> XINPUT_GAMEPAD_RIGHT_SHOULDER, vk |-> VK_PAD_RSHOULDER],
       [mask |-> XINPUT_GAMEPAD_A, vk |-> VK_PAD_A],
       [mask |-> XINPUT_GAMEPAD_B, vk |-> VK_PAD_B],
       [mask |-> XINPUT_GAMEPAD_X, vk |-> VK_PAD_X],
       [mask |-> XINPUT_GAMEPAD_Y, vk |-> VK_PAD_Y] >>

(* the entries of buttons[] at which                                       *)
(* (cur->wButtons & mask) != (last->wButtons & mask)                       *)
ButtonsDiffering(cur, last) ==
    {n \in 1 .. Len(KeystrokeButtons) :
        And16(cur.wButtons, KeystrokeButtons[n].mask)
        # And16(last.wButtons, KeystrokeButtons[n].mask)}

(* the stores of check_joystick_keystroke into *last_x and *last_y, which   *)
(* it makes on every path                                                  *)
StickStores(j, fx, fy) ==
    << [f |-> fx, op |-> "set", v |-> j.last_x],
       [f |-> fy, op |-> "set", v |-> j.last_y] >>

TriggerSnapshotStale(value) == 0
(* controller->last_keystroke.bLeftTrigger = cur->bLeftTrigger, and the    *)
(* same for the right trigger                                              *)
TriggerSnapshot(value) == value

(* check_for_keystroke on slot index whose reading is cur and whose        *)
(* snapshot is last: the return value, the keystroke written on success,   *)
(* the stores it makes into controller->last_keystroke in program order,   *)
(* and the snapshot they leave when nothing else writes it meanwhile       *)
check_for_keystroke(index, cur, last) ==
    LET differ == ButtonsDiffering(cur, last)
        b == KeystrokeButtons[FirstDiffering(differ)]
        lj == check_joystick_keystroke(index, cur.sThumbLX, cur.sThumbLY,
                                       last.sThumbLX, last.sThumbLY, VK_PAD_LTHUMB_UP)
        rj == check_joystick_keystroke(index, cur.sThumbRX, cur.sThumbRY,
                                       last.sThumbRX, last.sThumbRY, VK_PAD_RTHUMB_UP)
        Result(code, key, stores) ==
            [ret |-> code, keystroke |-> key, stores |-> stores,
             last |-> ApplyWrites(last, stores, 1)]
    IN  IF differ # {}
        THEN IF And16(cur.wButtons, b.mask) # 0
             THEN Result(ERROR_SUCCESS,
                         Keystroke(b.vk, XINPUT_KEYSTROKE_KEYDOWN, index),
                         << [f |-> "wButtons", op |-> "or", v |-> b.mask] >>)
             ELSE Result(ERROR_SUCCESS,
                         Keystroke(b.vk, XINPUT_KEYSTROKE_KEYUP, index),
                         << [f |-> "wButtons", op |-> "andnot", v |-> b.mask] >>)
        ELSE IF trigger_is_on(cur.bLeftTrigger) # trigger_is_on(last.bLeftTrigger)
        THEN Result(ERROR_SUCCESS,
                    Keystroke(VK_PAD_LTRIGGER,
                              IF trigger_is_on(cur.bLeftTrigger)
                              THEN XINPUT_KEYSTROKE_KEYDOWN
                              ELSE XINPUT_KEYSTROKE_KEYUP, index),
                    << [f |-> "bLeftTrigger", op |-> "set",
                        v |-> TriggerSnapshot(cur.bLeftTrigger)] >>)
        ELSE IF trigger_is_on(cur.bRightTrigger) # trigger_is_on(last.bRightTrigger)
        THEN Result(ERROR_SUCCESS,
                    Keystroke(VK_PAD_RTRIGGER,
                              IF trigger_is_on(cur.bRightTrigger)
                              THEN XINPUT_KEYSTROKE_KEYDOWN
                              ELSE XINPUT_KEYSTROKE_KEYUP, index),
                    << [f |-> "bRightTrigger", op |-> "set",
                        v |-> TriggerSnapshot(cur.bRightTrigger)] >>)
        ELSE IF lj.ret = ERROR_SUCCESS
        THEN Result(ERROR_SUCCESS, lj.keystroke,
                    StickStores(lj, "sThumbLX", "sThumbLY"))
        ELSE Result(rj.ret, rj.keystroke,
                    StickStores(lj, "sThumbLX", "sThumbLY")
                       \o StickStores(rj, "sThumbRX", "sThumbRY"))

(***************************************************************************)
(* The exported calls, made by the caller threads.                         *)
(***************************************************************************)
Call(op, index, ptr, x, y) ==
    [op |-> op, index |-> index, ptr |-> ptr, x |-> x, y |-> y]

(* if (index >= XUSER_MAX_COUNT) on a DWORD *)
IndexOutOfRange(index) == index >= XUSER_MAX_COUNT

ReadyNotAwaited(flag) == TRUE
(* while (!xinput_is_ready) Sleep(125): the loop is left on reading true *)
ReadyObserved(flag) == flag

(* the position after start_update_thread in each call *)
AfterStart(op) ==
    CASE op = "XInputEnable" -> "en_loop"
      [] op = "XInputSetState" -> "ss_body"
      [] op \in {"XInputGetState", "XInputGetStateEx"} -> "gs_check"
      [] op \in {"XInputGetCapabilities", "XInputGetCapabilitiesEx"} -> "gc_wait"

GetStateWaitsFirst(index) == "gs_wait"
(* the position xinput_get_state goes to after start_update_thread: the    *)
(* index check comes before the wait on the flag                           *)
GetStateChecked(index) ==
    IF IndexOutOfRange(index) THEN "return_bad" ELSE "gs_wait"

StateResultClearsStart(op, state) ==
    IF op = "XInputGetState"
    THEN [state EXCEPT !.Gamepad.wButtons = AndNot16(@, XINPUT_GAMEPAD_START)]
    ELSE state
(* what XInputGetState and XInputGetStateEx hand out of the copied state *)
StateResult(op, state) ==
    IF op = "XInputGetState"
    THEN [state EXCEPT !.Gamepad.wButtons = AndNot16(@, XINPUT_GAMEPAD_GUIDE)]
    ELSE state

(* what XInputGetCapabilitiesEx stores, and what XInputGetCapabilities     *)
(* copies out of it: VendorId 0x045E, ProductId 0x02A1                     *)
CapabilitiesResult(op, caps) ==
    IF op = "XInputGetCapabilitiesEx"
    THEN [kind |-> "caps_ex", caps |-> caps, VendorId |-> 1118, ProductId |-> 673]
    ELSE [kind |-> "caps", caps |-> caps]

(* the result of the device test of the two stubs *)
StubResult(controller) ==
    IF controller.device = 0 THEN ERROR_DEVICE_NOT_CONNECTED ELSE ERROR_NOT_SUPPORTED

(* the timeouts have run into the mass disconnect and the link is through  *)
(* with it                                                                 *)
MassDisconnected ==
    /\ silent > TimeoutLimit
    /\ lpc \notin {"to_loop", "disc_connected", "disc_enabled", "disc_caps"}

(* no step of a connect, decode or disconnect is under way *)
LinkBetweenReplies ==
    lpc \in {"none", "wsa", "socket", "connreq", "send", "recv", "setevent", "exited"}

(* the calls that wait on xinput_is_ready *)
QueryOps == {"XInputGetState", "XInputGetStateEx",
             "XInputGetCapabilities", "XInputGetCapabilitiesEx"}

NoEntry ==
    [first_snapshot |-> FALSE, nreplies |-> 0, mass_disconnected |-> FALSE,
     connected |-> FALSE, disconnected |-> FALSE]

(* what holds as a call on slot c.index is entered *)
EntryNow(c) ==
    [first_snapshot |-> first_snapshot,
     nreplies |-> nreplies,
     mass_disconnected |-> MassDisconnected,
     connected |-> /\ ~IndexOutOfRange(c.index)
                   /\ controllers[c.index].connected
                   /\ LinkBetweenReplies,
     disconnected |-> /\ ~IndexOutOfRange(c.index)
                      /\ ~controllers[c.index].connected
                      /\ LinkBetweenReplies]

StoreVibrationIfConnected(cs, index, left, right) ==
    IF cs[index].connected
    THEN [cs EXCEPT ![index].vibration =
             [wLeftMotorSpeed |-> left, wRightMotorSpeed |-> right]]
    ELSE cs
(* controllers[index].vibration = *vibration *)
StoreVibration(cs, index, left, right) ==
    [cs EXCEPT ![index].vibration =
        [wLeftMotorSpeed |-> left, wRightMotorSpeed |-> right]]

(* thread t may run: the threads in scenario.between run only while the    *)
(* link waits in recvfrom, and only once it has processed scenario.after   *)
(* state-exchange replies                                                  *)
MayRun(t) ==
    t \in scenario.between => lpc = "recv" /\ nreplies >= scenario.after

(* a thread enters a call *)
Enter(t, c) ==
    /\ ~crashed
    /\ pc[t] = "idle"
    /\ ncalls[t] < scenario.limit[t]
    /\ MayRun(t)
    /\ c \in scenario.calls[t]
    /\ call' = [call EXCEPT ![t] = c]
    /\ ncalls' = [ncalls EXCEPT ![t] = @ + 1]
    /\ entry' = [entry EXCEPT ![t] = IF c.op \in QueryOps THEN EntryNow(c) ELSE NoEntry]

(* a thread returns code, having stored o through its output pointer *)
Return(t, code, o) ==
    /\ pc' = [pc EXCEPT ![t] = "idle"]
    /\ ret' = [ret EXCEPT ![t] = code]
    /\ out' = [out EXCEPT ![t] = o]

(* thread t is at a position and may run *)
At(t, where) ==
    /\ ~crashed
    /\ pc[t] = where
    /\ MayRun(t)

Goto(t, where) ==
    /\ pc' = [pc EXCEPT ![t] = where]
    /\ UNCHANGED << ret, out >>

CallerUnchanged == UNCHANGED << scenario, ghostVars, found, keys >>

(* XInputEnable, XInputSetState, XInputGetCapabilities(Ex) begin with      *)
(* start_update_thread                                                     *)
CallStarting(t) ==
    \E c \in scenario.calls[t] :
       /\ c.op \in {"XInputEnable", "XInputSetState",
                    "XInputGetCapabilities", "XInputGetCapabilitiesEx"}
       /\ Enter(t, c)
       /\ pc' = [pc EXCEPT ![t] = "start"]
       /\ ret' = [ret EXCEPT ![t] = ERROR_SUCCESS]
       /\ out' = [out EXCEPT ![t] = NoOut]
       /\ UNCHANGED << controllers, xinput_is_ready, start_event, init_once,
                       linkVars, ci, crashed >>
       /\ CallerUnchanged

(* start_update_thread: InitOnceExecuteOnce runs start_update_thread_once  *)
(* in the first thread to arrive: CreateEventA, then CreateThread, which   *)
(* may fail.  A thread arriving while it runs is made to wait              *)
StartUpdateThreadOnce(t) ==
    /\ At(t, "start")
    /\ init_once = "uninit"
    /\ init_once' = "running"
    /\ start_event' = "unset"
    /\ \/ lpc' = "wsa"
       \/ /\ "thread" \in scenario.faults
          /\ lpc' = lpc
    /\ Goto(t, "start_wait")
    /\ ci' = [ci EXCEPT ![t] = 0]
    /\ UNCHANGED << controllers, xinput_is_ready, li, lk, lafter, timeoutCounter,
                    buffer, sent, call, ncalls, entry, crashed >>
    /\ CallerUnchanged

InitOnceCompleteEarly(once) == once # "uninit"
(* InitOnceExecuteOnce returns in a thread that did not run the            *)
(* initialiser once the initialiser has returned                           *)
InitOnceComplete(once) == once = "done"

(* start_update_thread once the initialiser has returned: nothing to do *)
StartUpdateThreadDone(t) ==
    /\ At(t, "start")
    /\ InitOnceComplete(init_once)
    /\ Goto(t, AfterStart(call[t].op))
    /\ ci' = [ci EXCEPT ![t] = 0]
    /\ UNCHANGED << controllers, xinput_is_ready, start_event, init_once,
                    linkVars, call, ncalls, entry, crashed >>
    /\ CallerUnchanged

(* start_update_thread_once: WaitForSingleObject(start_event, 2000) ends,  *)
(* the auto-reset event signalled or the two seconds over                  *)
StartWait(t) ==
    /\ At(t, "start_wait")
    /\ \/ /\ start_event = "set"
          /\ start_event' = "unset"
       \/ start_event' = start_event
    /\ init_once' = "done"
    /\ Goto(t, AfterStart(call[t].op))
    /\ UNCHANGED << controllers, xinput_is_ready, linkVars, call, ci, ncalls, entry,
                    crashed >>
    /\ CallerUnchanged

(* XInputEnable: controller_enable or controller_disable on the next slot; *)
(* the function returns after the last                                     *)
EnableSlot(t) ==
    /\ At(t, "en_loop")
    /\ controllers' = [controllers EXCEPT ![ci[t]].enabled = (call[t].x # 0)]
    /\ IF ci[t] + 1 < XUSER_MAX_COUNT
       THEN Goto(t, "en_loop") /\ ci' = [ci EXCEPT ![t] = @ + 1]
       ELSE Return(t, ERROR_SUCCESS, NoOut) /\ ci' = ci
    /\ UNCHANGED << xinput_is_ready, start_event, init_once, linkVars, call,
                    ncalls, entry, crashed >>
    /\ CallerUnchanged

(* XInputSetState after start_update_thread: the index check, then         *)
(* controllers[index].vibration = *vibration, which faults on a null       *)
(* pointer                                                                 *)
SetStateBody(t) ==
    /\ At(t, "ss_body")
    /\ IF IndexOutOfRange(call[t].index)
       THEN /\ Return(t, ERROR_BAD_ARGUMENTS, NoOut)
            /\ UNCHANGED << controllers, crashed >>
       ELSE IF ~call[t].ptr
       THEN /\ crashed' = TRUE
            /\ UNCHANGED << controllers, pc, ret, out >>
       ELSE /\ controllers' = StoreVibration(controllers, call[t].index,
                                             call[t].x, call[t].y)
            /\ Return(t, ERROR_SUCCESS, NoOut)
            /\ UNCHANGED crashed
    /\ UNCHANGED << xinput_is_ready, start_event, init_once, linkVars, call, ci,
                    ncalls, entry >>
    /\ CallerUnchanged

(* XInputGetState, XInputGetStateEx: xinput_get_state tests the output     *)
(* pointer before start_update_thread                                      *)
CallGetState(t) ==
    \E c \in scenario.calls[t] :
       /\ c.op \in {"XInputGetState", "XInputGetStateEx"}
       /\ Enter(t, c)
       /\ IF ~c.ptr
          THEN Return(t, ERROR_BAD_ARGUMENTS, NoOut)
          ELSE /\ pc' = [pc EXCEPT ![t] = "start"]
               /\ ret' = [ret EXCEPT ![t] = ERROR_SUCCESS]
               /\ out' = [out EXCEPT ![t] = NoOut]
       /\ UNCHANGED << controllers, xinput_is_ready, start_event, init_once,
                       linkVars, ci, crashed >>
       /\ CallerUnchanged

(* xinput_get_state: the index check *)
GetStateCheck(t) ==
    /\ At(t, "gs_check")
    /\ IF GetStateChecked(call[t].index) = "return_bad"
       THEN Return(t, ERROR_BAD_ARGUMENTS, NoOut)
       ELSE Goto(t, GetStateChecked(call[t].index))
    /\ UNCHANGED << controllers, xinput_is_ready, start_event, init_once,
                    linkVars, call, ci, ncalls, entry, crashed >>
    /\ CallerUnchanged

(* xinput_get_state: the wait loop reads xinput_is_ready true *)
GetStateReady(t) ==
    /\ At(t, "gs_wait")
    /\ ReadyObserved(xinput_is_ready)
    /\ Goto(t, "gs_connected")
    /\ UNCHANGED << controllers, xinput_is_ready, start_event, init_once,
                    linkVars, call, ci, ncalls, entry, crashed >>
    /\ CallerUnchanged

(* xinput_get_state: if (!controllers[index].connected), read without the  *)
(* critical section                                                        *)
GetStateConnected(t) ==
    /\ At(t, "gs_connected")
    /\ IF ~controllers[call[t].index].connected
       THEN Return(t, ERROR_DEVICE_NOT_CONNECTED, NoOut)
       ELSE Goto(t, "gs_copy")
    /\ UNCHANGED << controllers, xinput_is_ready, start_event, init_once,
                    linkVars, call, ci, ncalls, entry, crashed >>
    /\ CallerUnchanged

(* xinput_get_state: *state = controllers[index].state, copied without the *)
(* critical section; XInputGetState then clears the guide bit              *)
GetStateCopy(t) ==
    /\ At(t, "gs_copy")
    /\ Return(t, ERROR_SUCCESS,
              [kind |-> "state",
               state |-> StateResult(call[t].op, controllers[call[t].index].state)])
    /\ UNCHANGED << controllers, xinput_is_ready, start_event, init_once,
                    linkVars, call, ci, ncalls, entry, crashed >>
    /\ CallerUnchanged

FirstSlotTriedOne(index) == IF index = XUSER_INDEX_ANY THEN 1 ELSE index
(* the slot XInputGetKeystroke hands to check_for_keystroke first *)
FirstSlotTried(index) == IF index = XUSER_INDEX_ANY THEN 0 ELSE index

(* XInputGetKeystroke: the index check; no start_update_thread *)
CallGetKeystroke(t) ==
    \E c \in scenario.calls[t] :
       /\ c.op = "XInputGetKeystroke"
       /\ Enter(t, c)
       /\ IF IndexOutOfRange(c.index) /\ c.index # XUSER_INDEX_ANY
          THEN Return(t, ERROR_BAD_ARGUMENTS, NoOut) /\ ci' = ci
          ELSE /\ pc' = [pc EXCEPT ![t] = "ks_check"]
               /\ ret' = [ret EXCEPT ![t] = ERROR_SUCCESS]
               /\ out' = [out EXCEPT ![t] = NoOut]
               /\ ci' = [ci EXCEPT ![t] = FirstSlotTried(c.index)]
       /\ UNCHANGED << controllers, xinput_is_ready, start_event, init_once,
                       linkVars, crashed >>
       /\ CallerUnchanged

(* check_for_keystroke on one slot, up to its stores: the reading and the  *)
(* snapshot are compared and the event, if any, is chosen.  No critical    *)
(* section is entered, so that the link and other callers may run before   *)
(* the stores are made                                                     *)
GetKeystrokeCheck(t) ==
    /\ At(t, "ks_check")
    /\ \E r \in {check_for_keystroke(ci[t], controllers[ci[t]].state.Gamepad,
                                       controllers[ci[t]].last_keystroke)} :
          found' = [found EXCEPT ![t] =
                       [ret |-> r.ret, keystroke |-> r.keystroke,
                        stores |-> r.stores,
                        cur |-> controllers[ci[t]].state.Gamepad]]
    /\ Goto(t, "ks_store")
    /\ UNCHANGED << controllers, xinput_is_ready, start_event, init_once, linkVars,
                    call, ci, ncalls, entry, keys, crashed >>
    /\ UNCHANGED << scenario, ghostVars >>

(* check_for_keystroke: the stores into controller->last_keystroke, and    *)
(* the return; with XUSER_INDEX_ANY XInputGetKeystroke goes on to the next *)
(* slot in index order when the slot had no event                          *)
GetKeystrokeStore(t) ==
    /\ At(t, "ks_store")
    /\ LET r == found[t]
           k == [ret |-> r.ret, keystroke |-> r.keystroke, cur |-> r.cur]
       IN  /\ controllers' = [controllers EXCEPT ![ci[t]].last_keystroke =
                                                     ApplyWrites(@, r.stores, 1)]
           /\ IF r.ret = ERROR_SUCCESS
              THEN /\ Return(t, ERROR_SUCCESS,
                             [kind |-> "keystroke", keystroke |-> r.keystroke])
                   /\ ci' = ci
                   /\ keys' = [keys EXCEPT ![t] = Append(@, k)]
              ELSE IF call[t].index = XUSER_INDEX_ANY /\ ci[t] + 1 < XUSER_MAX_COUNT
              THEN Goto(t, "ks_check") /\ ci' = [ci EXCEPT ![t] = @ + 1]
                   /\ keys' = keys
              ELSE /\ Return(t, ERROR_EMPTY, NoOut) /\ ci' = ci
                   /\ keys' = [keys EXCEPT ![t] = Append(@, k)]
    /\ found' = [found EXCEPT ![t] = NoFound]
    /\ UNCHANGED << xinput_is_ready, start_event, init_once, linkVars, call,
                    ncalls, entry, crashed >>
    /\ UNCHANGED << scenario, ghostVars >>

(* XInputGetCapabilitiesEx: the wait loop reads xinput_is_ready true *)
GetCapabilitiesReady(t) ==
    /\ At(t, "gc_wait")
    /\ ReadyObserved(xinput_is_ready)
    /\ Goto(t, "gc_connected")
    /\ UNCHANGED << controllers, xinput_is_ready, start_event, init_once,
                    linkVars, call, ci, ncalls, entry, crashed >>
    /\ CallerUnchanged

(* XInputGetCapabilitiesEx: if (!controllers[index].connected), with an    *)
(* index inside the table                                                  *)
GetCapabilitiesConnected(t) ==
    /\ At(t, "gc_connected")
    /\ ~IndexOutOfRange(call[t].index)
    /\ IF ~controllers[call[t].index].connected
       THEN Return(t, ERROR_DEVICE_NOT_CONNECTED, NoOut)
       ELSE Goto(t, "gc_enter")
    /\ UNCHANGED << controllers, xinput_is_ready, start_event, init_once,
                    linkVars, call, ci, ncalls, entry, crashed >>
    /\ CallerUnchanged

(* XInputGetCapabilitiesEx has no index check: with an index outside the   *)
(* table it reads, locks and copies memory beyond controllers[].  What is  *)
(* there is not defined: a zero connected field, a non-zero one followed   *)
(* by a copy of whatever lies in the place of caps, or no mapped memory    *)
GetCapabilitiesOutOfBounds(t) ==
    /\ At(t, "gc_connected")
    /\ IndexOutOfRange(call[t].index)
    /\ \/ /\ Return(t, ERROR_DEVICE_NOT_CONNECTED, NoOut)
          /\ UNCHANGED crashed
       \/ /\ Return(t, ERROR_SUCCESS, [kind |-> "garbage"])
          /\ UNCHANGED crashed
       \/ /\ crashed' = TRUE
          /\ UNCHANGED << pc, ret, out >>
    /\ UNCHANGED << controllers, xinput_is_ready, start_event, init_once,
                    linkVars, call, ci, ncalls, entry >>
    /\ CallerUnchanged

(* XInputGetCapabilitiesEx: EnterCriticalSection *)
GetCapabilitiesEnter(t) ==
    /\ At(t, "gc_enter")
    /\ controllers[call[t].index].crit = "free"
    /\ controllers' = [controllers EXCEPT ![call[t].index].crit = t]
    /\ Goto(t, "gc_body")
    /\ UNCHANGED << xinput_is_ready, start_event, init_once, linkVars, call, ci,
                    ncalls, entry, crashed >>
    /\ CallerUnchanged

(* XInputGetCapabilitiesEx: the subtype filter or the copy of caps, then   *)
(* LeaveCriticalSection                                                    *)
GetCapabilitiesBody(t) ==
    /\ At(t, "gc_body")
    /\ controllers' = [controllers EXCEPT ![call[t].index].crit =
                                              LeaveCriticalSection(@)]
    /\ IF /\ And16(call[t].x, XINPUT_FLAG_GAMEPAD) # 0
          /\ controllers[call[t].index].caps.SubType # XINPUT_DEVSUBTYPE_GAMEPAD
       THEN Return(t, ERROR_DEVICE_NOT_CONNECTED, NoOut)
       ELSE Return(t, ERROR_SUCCESS,
                   CapabilitiesResult(call[t].op, controllers[call[t].index].caps))
    /\ UNCHANGED << xinput_is_ready, start_event, init_once, linkVars, call, ci,
                    ncalls, entry, crashed >>
    /\ CallerUnchanged

(* XInputGetBatteryInformation, XInputGetDSoundAudioDeviceGuids: the index *)
(* check, then the test of controllers[index].device                      *)
CallStub(t) ==
    \E c \in scenario.calls[t] :
       /\ c.op \in {"XInputGetBatteryInformation", "XInputGetDSoundAudioDeviceGuids"}
       /\ Enter(t, c)
       /\ IF IndexOutOfRange(c.index)
          THEN Return(t, ERROR_BAD_ARGUMENTS, NoOut)
          ELSE Return(t, StubResult(controllers[c.index]), NoOut)
       /\ UNCHANGED << controllers, xinput_is_ready, start_event, init_once,
                       linkVars, ci, crashed >>
       /\ CallerUnchanged

CallerNext(t) ==
    \/ CallStarting(t) \/ StartUpdateThreadOnce(t) \/ StartUpdateThreadDone(t)
    \/ StartWait(t)
    \/ EnableSlot(t) \/ SetStateBody(t)
    \/ CallGetState(t) \/ GetStateCheck(t) \/ GetStateReady(t)
    \/ GetStateConnected(t) \/ GetStateCopy(t)
    \/ CallGetKeystroke(t) \/ GetKeystrokeCheck(t) \/ GetKeystrokeStore(t)
    \/ GetCapabilitiesReady(t) \/ GetCapabilitiesConnected(t)
    \/ GetCapabilitiesOutOfBounds(t) \/ GetCapabilitiesEnter(t)
    \/ GetCapabilitiesBody(t)
    \/ CallStub(t)

(***************************************************************************)
(* Workloads.                                                              *)
(***************************************************************************)
NoCalls == [t \in Threads |-> {}]

Workload(name, calls, recv, payloads, faults) ==
    [name |-> name, calls |-> calls, recv |-> recv, payloads |-> payloads,
     faults |-> faults, limit |-> [t \in Threads |-> MaxCalls],
     replies |-> MaxReplies, between |-> {}, after |-> 0,
     build |-> "signed char, wrapped"]

(* one thread polls slot 0 while the server connects, updates and          *)
(* disconnects it                                                          *)
WorkloadPoll ==
    Workload("poll",
             [NoCalls EXCEPT !["t1"] = {Call("XInputGetState", 0, TRUE, 0, 0),
                                        Call("XInputGetStateEx", 0, TRUE, 0, 0)}],
             {"ack"},
             {Payload(r, RecOff) : r \in {RecOff, RecA, RecAB}},
             {})

(* the server connects slot 0 and then falls silent; a thread asks for the *)
(* state of slot 0, before or after another has started the link           *)
WorkloadSilence ==
    Workload("silence",
             [NoCalls EXCEPT !["t1"] = {Call("XInputGetState", 0, TRUE, 0, 0)},
                             !["t2"] = {Call("XInputSetState", 3, TRUE, 0, 0)}],
             {"timeout"},
             {Payload(RecA, RecOff)},
             {})

(* calls with an index outside the table, or without a destination *)
WorkloadBadArguments ==
    Workload("bad arguments",
             [NoCalls EXCEPT !["t1"] =
                 {Call("XInputGetState", XUSER_MAX_COUNT, TRUE, 0, 0),
                  Call("XInputGetStateEx", XUSER_INDEX_ANY, TRUE, 0, 0),
                  Call("XInputGetState", 0, FALSE, 0, 0),
                  Call("XInputSetState", XUSER_MAX_COUNT, TRUE, 65535, 257),
                  Call("XInputSetState", 0, FALSE, 0, 0),
                  Call("XInputGetKeystroke", XUSER_MAX_COUNT, TRUE, 0, 0),
                  Call("XInputGetCapabilities", XUSER_MAX_COUNT, TRUE, 0, 0),
                  Call("XInputGetCapabilitiesEx", XUSER_INDEX_ANY, TRUE, 0, 1),
                  Call("XInputGetBatteryInformation", XUSER_MAX_COUNT, TRUE, 0, 0),
                  Call("XInputGetDSoundAudioDeviceGuids", XUSER_MAX_COUNT, TRUE, 0, 0)}],
             {"ack"},
             {Payload(RecA, RecOff)},
             {})

(* one thread sets rumble targets while another enables or disables, and   *)
(* the server connects and disconnects slot 0                              *)
WorkloadRumble ==
    Workload("rumble",
             [NoCalls EXCEPT !["t1"] = {Call("XInputSetState", 0, TRUE, 65535, 257),
                                        Call("XInputSetState", 1, TRUE, 256, 514)},
                             !["t2"] = {Call("XInputEnable", 0, TRUE, 1, 0),
                                        Call("XInputEnable", 0, TRUE, 0, 0)}],
             {"ack"},
             {Payload(RecA, RecOff), Payload(RecOff, RecOff)},
             {})

(* the stubs, the capabilities and the keystrokes of connected and         *)
(* disconnected slots, before or after another thread has started the link *)
WorkloadQueries ==
    Workload("queries",
             [NoCalls EXCEPT !["t1"] =
                 {Call("XInputGetBatteryInformation", 0, TRUE, 0, 0),
                  Call("XInputGetDSoundAudioDeviceGuids", 1, TRUE, 0, 0),
                  Call("XInputGetCapabilities", 0, TRUE, XINPUT_FLAG_GAMEPAD, 0),
                  Call("XInputGetCapabilitiesEx", 1, TRUE, 0, 1),
                  Call("XInputGetKeystroke", 0, TRUE, 0, 0),
                  Call("XInputGetKeystroke", XUSER_INDEX_ANY, TRUE, 0, 0)},
                             !["t2"] = {Call("XInputSetState", 3, TRUE, 0, 0)}],
             {"other"},
             {Payload(RecA, RecOff), Payload(RecOff, RecAB)},
             {})

(* the link fails to start, or the server never answers and recvfrom       *)
(* fails; a thread asks for the state of slot 0                            *)
WorkloadFaults ==
    Workload("faults",
             [NoCalls EXCEPT !["t1"] = {Call("XInputGetState", 0, TRUE, 0, 0)}],
             {"error", "timeout"},
             {},
             {"startup", "thread"})

(* the server answers the connection request, connects slot 0 and falls    *)
(* silent, and recvfrom fails now and then for another reason than the     *)
(* timeout                                                                 *)
WorkloadLapse ==
    [Workload("lapse",
              [NoCalls EXCEPT !["t2"] = {Call("XInputSetState", 3, TRUE, 0, 0)}],
              {"timeout", "error", "ack"},
              {Payload(RecA, RecOff)},
              {})
       EXCEPT !.replies = 1]

(* a thread polls the keystrokes of a slot again and again, another has    *)
(* started the link; the polling thread runs only while the link waits in  *)
(* recvfrom, so that every call sees a reading the link has completed      *)
KeystrokeWorkload(name, index, payloads) ==
    [Workload(name,
              [NoCalls EXCEPT !["t1"] = {Call("XInputGetKeystroke", index, TRUE, 0, 0)},
                              !["t2"] = {Call("XInputSetState", 3, TRUE, 0, 0)}],
              {"ack"}, payloads, {})
       EXCEPT !.limit["t1"] = MaxKeystrokeCalls, !.replies = MaxKeystrokeReplies,
              !.between = {"t1"}]

(* buttons, triggers and sticks of slot 0 change at once *)
WorkloadDrain ==
    [KeystrokeWorkload("drain", 0, {Payload(RecFull, RecOff)}) EXCEPT !.replies = 1]

(* the left stick of slot 0 goes from up-right to down-left *)
WorkloadDiagonal ==
    [KeystrokeWorkload("diagonal", 0, {Payload(RecHH, RecOff), Payload(RecLL, RecOff)})
       EXCEPT !.limit["t1"] = MaxDiagonalCalls]

(* XUSER_INDEX_ANY while slot 1 alone, or slots 0 and 1, have changed *)
WorkloadAny ==
    [KeystrokeWorkload("any", XUSER_INDEX_ANY,
                       {Payload(RecOff, RecA), Payload(RecA, RecAB)})
       EXCEPT !.limit["t1"] = MaxAnyCalls, !.replies = 1]

(* every button, trigger and stick of slot 0 changes from one reply to the *)
(* next; the polling starts when the first reply has been processed        *)
WorkloadSweep ==
    [KeystrokeWorkload("sweep", 0, {Payload(RecSweepFrom, RecOff),
                                    Payload(RecSweepTo, RecOff)})
       EXCEPT !.limit["t1"] = MaxSweepCalls, !.after = 1]

(* the polling thread calls at any time, the decode of a reply included *)
WorkloadTorn ==
    [KeystrokeWorkload("torn", 0, {Payload(RecFull, RecOff)})
       EXCEPT !.limit["t1"] = MaxTornCalls, !.replies = 1, !.between = {}]

(* button A of slot 0 is held in every reply; the polling thread calls at  *)
(* any time, while the link decodes a reply included                       *)
WorkloadHeld ==
    [KeystrokeWorkload("held", 0, {Payload(RecA, RecOff)})
       EXCEPT !.limit["t1"] = MaxHeldCalls, !.between = {}]

(* two threads poll the keystrokes of slot 0 at any time, one of them      *)
(* having started the link; the one reply has button A down and nothing    *)
(* else changed                                                            *)
WorkloadPollers ==
    [Workload("pollers",
              [NoCalls EXCEPT !["t1"] = {Call("XInputGetKeystroke", 0, TRUE, 0, 0)},
                              !["t2"] = {Call("XInputSetState", 3, TRUE, 0, 0),
                                         Call("XInputGetKeystroke", 0, TRUE, 0, 0)}],
              {"ack"}, {Payload(RecAOnly, RecOff)}, {})
       EXCEPT !.limit["t2"] = MaxRaceCalls, !.replies = 1]

(* a motor speed for each byte value: 0, 65535, and values of every        *)
(* quotient and many remainders by 257 between                             *)
SpeedOf(b) == IF b = 255 THEN 65535 ELSE b * 257 + ((b * 37) % 257)

(* The codec workloads, one for each byte value and build: the server      *)
(* replies once, with RecByte(b) for slot 0, and a thread sets the rumble  *)
(* of slot b mod 4                                                         *)
WorkloadCodec(b, build) ==
    [Workload("codec",
              [NoCalls EXCEPT !["t2"] =
                  {Call("XInputSetState", b % 4, TRUE, SpeedOf(b), SpeedOf(255 - b))}],
              {"ack"}, {Payload(RecByte(b), RecOff)}, {})
       EXCEPT !.replies = 1, !.build = build]

(* the bytes for which the server replies again and again, with RecByte(b) *)
(* or RecByte(255 - b), so that a record is decoded over another           *)
RedecodeBytes == {b \in Bytes : b % 17 = 0}

WorkloadRedecode(b) ==
    [WorkloadCodec(b, "signed char, wrapped")
       EXCEPT !.name = "redecode", !.replies = MaxCodecReplies,
              !.payloads = {Payload(RecByte(b), RecOff), Payload(RecByte(255 - b), RecOff)}]

CodecWorkloads ==
    {WorkloadCodec(b, build) : b \in Bytes, build \in Builds}
       \cup {WorkloadRedecode(b) : b \in RedecodeBytes}

KeystrokeWorkloads ==
    {WorkloadDrain, WorkloadDiagonal, WorkloadAny, WorkloadTorn, WorkloadSweep}

Workloads ==
    {WorkloadPoll, WorkloadSilence, WorkloadBadArguments, WorkloadRumble,
     WorkloadQueries, WorkloadFaults}

(***************************************************************************)
(* The program.                                                            *)
(***************************************************************************)
InitWith(workloads) ==
    /\ scenario \in workloads
    /\ controllers = [i \in Slots |-> InitController]
    /\ xinput_is_ready = FALSE
    /\ start_event = "null"
    /\ init_once = "uninit"
    /\ lpc = "none"
    /\ li = 0
    /\ lk = 1
    /\ lafter = "rep_loop"
    /\ timeoutCounter = 0
    /\ buffer = Payload(RecOff, RecOff)
    /\ sent = NoFrame
    /\ pc = [t \in Threads |-> "idle"]
    /\ call = [t \in Threads |-> NoCall]
    /\ ret = [t \in Threads |-> ERROR_SUCCESS]
    /\ out = [t \in Threads |-> NoOut]
    /\ ci = [t \in Threads |-> 0]
    /\ ncalls = [t \in Threads |-> 0]
    /\ nreplies = 0
    /\ snapshots = [i \in Slots |-> {}]
    /\ first_snapshot = FALSE
    /\ pulsed = FALSE
    /\ handshaken = FALSE
    /\ at_reply = [i \in Slots |-> [dwPacketNumber |-> 0, connected |-> FALSE]]
    /\ silent = 0
    /\ entry = [t \in Threads |-> NoEntry]
    /\ found = [t \in Threads |-> NoFound]
    /\ keys = [t \in Threads |-> << >>]
    /\ crashed = FALSE

Init == InitWith(Workloads)

Next == LinkNext \/ \E t \in Threads : CallerNext(t)

Spec == Init /\ [][Next]_vars

(***************************************************************************)
(* The program when the link cannot start or the server never answers,     *)
(* under fair scheduling: the link thread and every caller thread keep     *)
(* running, and a caller that polls xinput_is_ready every 125 ms reads a   *)
(* flag that is raised for 250 ms at a time.                               *)
(***************************************************************************)
FairInit == InitWith({WorkloadFaults})

FairLink ==
    \/ LinkWSAStartup \/ LinkSocket \/ LinkConnectionRequest \/ LinkSendState
    \/ LinkRecvTimeout \/ LinkRecvError
    \/ LinkTimeoutLoop \/ LinkTimeoutReady \/ LinkTimeoutSleepEnd

FairCaller(t) ==
    \/ CallGetState(t) \/ StartUpdateThreadOnce(t) \/ StartWait(t)
    \/ GetStateCheck(t) \/ GetStateReady(t) \/ GetStateConnected(t)

FairNext == FairLink \/ \E t \in Threads : FairCaller(t)

FairSpec ==
    /\ FairInit
    /\ [][FairNext]_vars
    /\ WF_vars(FairLink)
    /\ \A t \in Threads : WF_vars(FairCaller(t)) /\ SF_vars(GetStateReady(t))

(***************************************************************************)
(* Properties.                                                             *)
(***************************************************************************)
GetStateOps == {"XInputGetState", "XInputGetStateEx"}
CapsOps == QueryOps \ GetStateOps
StubOps == {"XInputGetBatteryInformation", "XInputGetDSoundAudioDeviceGuids"}

(* thread t has made a call and is back from it *)
Returned(t) == pc[t] = "idle" /\ call[t].op # "none"

(* the step is one of thread t *)
ThreadStepped(t) ==
    << pc[t], ncalls[t], ci[t], ret[t], out[t] >>' # << pc[t], ncalls[t], ci[t], ret[t], out[t] >>

(* a call of t on a slot of the table with a destination *)
ValidCall(t, ops) ==
    /\ call[t].op \in ops
    /\ ~IndexOutOfRange(call[t].index)
    /\ call[t].ptr

(* C1: the state a successful XInputGetState or XInputGetStateEx returns   *)
(* is the slot's state as it stood after one complete decode, or the       *)
(* zeroed state right after a connect: never a mix of two replies, never a *)
(* new reading with the old packet counter.                                *)
C1_ReturnedStateIsSnapshot ==
    \A t \in Threads :
       (Returned(t) /\ ValidCall(t, GetStateOps) /\ ret[t] = ERROR_SUCCESS)
          => \E s \in snapshots[call[t].index] :
                out[t] = [kind |-> "state", state |-> StateResult(call[t].op, s)]

C3_GetStateReturns ==
    \A t \in Threads :
       (pc[t] # "idle" /\ ValidCall(t, GetStateOps)) ~> (pc[t] = "idle")

DecodeDone(i) == lpc = "decode" /\ lpc' = "rep_loop" /\ li = i

PacketNumber(i) == controllers[i].state.dwPacketNumber

(* C5 as stated: no slot's packet counter ever decreases, and a reply with *)
(* the slot's connectivity byte set leaves it 1 above what it was when the *)
(* reply arrived.                                                          *)
C5_Original ==
    [][\A i \in Slots :
          /\ PacketNumber(i)' >= PacketNumber(i)
          /\ DecodeDone(i) => PacketNumber(i)' = at_reply[i].dwPacketNumber + 1]_vars

(* C5: a slot's packet counter decreases only when controller_connect      *)
(* zeroes the state; a reply with the slot's connectivity byte set leaves  *)
(* it 1 above what it was when the reply arrived if the slot was connected *)
(* then, and at 1 if it was not.                                           *)
C5_PacketCounter ==
    [][\A i \in Slots :
          /\ PacketNumber(i)' < PacketNumber(i)
                => (lpc = "conn_state" /\ li = i /\ PacketNumber(i)' = 0)
          /\ DecodeDone(i)
                => PacketNumber(i)' =
                      (IF at_reply[i].connected THEN at_reply[i].dwPacketNumber ELSE 0) + 1
      ]_vars

(* slot 0, whose counter had advanced, has been connected again and read   *)
C5_Witness ==
    /\ lpc = "rep_loop" /\ li >= 1
    /\ Byte(buffer[0], 1) # 0
    /\ ~at_reply[0].connected
    /\ at_reply[0].dwPacketNumber >= 1
    /\ PacketNumber(0) = 1

(* C6: XInputGetCapabilities(Ex) with an index outside the table returns   *)
(* an error and does not fault; on a slot of the table that is             *)
(* disconnected, and stays so, it returns not-connected.                   *)
C6_CapabilitiesArguments ==
    /\ \A t \in Threads :
          (call[t].op \in CapsOps /\ IndexOutOfRange(call[t].index))
             => /\ ~(crashed /\ pc[t] = "gc_connected")
                /\ Returned(t) => ret[t] # ERROR_SUCCESS
    /\ \A t \in Threads :
          ( /\ Returned(t) /\ ValidCall(t, CapsOps)
            /\ entry[t].disconnected
            /\ entry[t].nreplies = nreplies )
             => ret[t] = ERROR_DEVICE_NOT_CONNECTED

(* a call of the four with an index outside the table that is not the      *)
(* keystroke call's XUSER_INDEX_ANY                                        *)
C7Case(t) ==
    /\ call[t].op \in GetStateOps \cup {"XInputSetState", "XInputGetKeystroke"}
    /\ IndexOutOfRange(call[t].index)
    /\ ~(call[t].op = "XInputGetKeystroke" /\ call[t].index = XUSER_INDEX_ANY)

(* C7: XInputGetState, XInputGetStateEx, XInputSetState and                *)
(* XInputGetKeystroke with an index outside the table (XUSER_INDEX_ANY     *)
(* apart, for the keystroke call) never come to the wait on                *)
(* xinput_is_ready, return ERROR_BAD_ARGUMENTS, and no step of theirs      *)
(* changes a controller.                                                   *)
C7_BadIndex ==
    /\ [](\A t \in Threads :
             C7Case(t) =>
                /\ pc[t] \in {"idle", "start", "start_wait", "gs_check", "ss_body"}
                /\ Returned(t) => (ret[t] = ERROR_BAD_ARGUMENTS /\ out[t] = NoOut))
    /\ [][\A t \in Threads :
             (C7Case(t)' /\ ThreadStepped(t)) => controllers' = controllers]_vars

(* a state call with an index outside the table went through               *)
(* start_update_thread and is back before the flag was ever raised         *)
C7_Witness ==
    \E t \in Threads :
       /\ Returned(t) /\ C7Case(t)
       /\ call[t].op \in GetStateOps /\ call[t].ptr
       /\ init_once = "done"
       /\ ~xinput_is_ready /\ ~first_snapshot /\ ~pulsed
       /\ ret[t] = ERROR_BAD_ARGUMENTS

(* thread t makes a stub call on a slot of the table, the link between two *)
(* replies                                                                 *)
StubStep(t) ==
    /\ ncalls'[t] # ncalls[t]
    /\ call'[t].op \in StubOps
    /\ ~IndexOutOfRange(call'[t].index)
    /\ LinkBetweenReplies

(* C8: XInputGetBatteryInformation and XInputGetDSoundAudioDeviceGuids on  *)
(* a slot of the table return ERROR_NOT_SUPPORTED when the slot is         *)
(* connected and ERROR_DEVICE_NOT_CONNECTED only when it is not.           *)
C8_StubsOnConnectedSlot ==
    [][\A t \in Threads :
          StubStep(t) =>
             ret'[t] = IF controllers[call'[t].index].connected
                       THEN ERROR_NOT_SUPPORTED
                       ELSE ERROR_DEVICE_NOT_CONNECTED]_vars

(* thread t stores the rumble targets or returns from XInputSetState *)
SetStateStep(t) ==
    /\ pc[t] = "ss_body" /\ pc'[t] = "idle"
    /\ ~IndexOutOfRange(call[t].index)

(* C9: XInputSetState on a slot of the table never waits on                *)
(* xinput_is_ready, returns ERROR_SUCCESS whether or not the slot is       *)
(* connected or enabled, and changes that slot's vibration to the two      *)
(* speeds and nothing else in any controller.                              *)
C9_SetState ==
    /\ [](\A t \in Threads :
             call[t].op = "XInputSetState"
                => pc[t] \in {"idle", "start", "start_wait", "ss_body"})
    /\ [][\A t \in Threads :
             SetStateStep(t) =>
                /\ ret'[t] = ERROR_SUCCESS
                /\ controllers' =
                      [controllers EXCEPT ![call[t].index].vibration =
                          [wLeftMotorSpeed |-> call[t].x,
                           wRightMotorSpeed |-> call[t].y]]]_vars

(* XInputSetState is back with success from a slot that is neither         *)
(* connected nor enabled and now holds the two speeds                      *)
C9_Witness ==
    \E t \in Threads :
       /\ Returned(t) /\ ValidCall(t, {"XInputSetState"})
       /\ ret[t] = ERROR_SUCCESS
       /\ call[t].x # 0 /\ call[t].y # 0
       /\ ~controllers[call[t].index].connected
       /\ ~controllers[call[t].index].enabled
       /\ controllers[call[t].index].vibration =
             [wLeftMotorSpeed |-> call[t].x, wRightMotorSpeed |-> call[t].y]

(* C10 as stated: once XInputEnable(b) is back, and until the next         *)
(* XInputEnable, every slot has enabled = b, whatever the link connects or *)
(* disconnects.                                                            *)
C10_Original ==
    \A t \in Threads :
       ( /\ Returned(t) /\ call[t].op = "XInputEnable"
         /\ \A u \in Threads \ {t} : call[u].op # "XInputEnable" )
          => \A i \in Slots : controllers[i].enabled = (call[t].x # 0)

(* C10: enabled changes only where XInputEnable(b) stores b, slot by slot, *)
(* where controller_connect stores TRUE and where controller_disconnect    *)
(* stores FALSE; the link's two stores do not depend on what XInputEnable  *)
(* stored before.                                                          *)
C10_EnabledWriters ==
    [][/\ \A i \in Slots :
             controllers'[i].enabled # controllers[i].enabled
                => \/ lpc = "conn_enabled" /\ li = i
                   \/ lpc = "disc_enabled" /\ li = i
                   \/ \E t \in Threads :
                         pc[t] = "en_loop" /\ ci[t] = i /\ ThreadStepped(t)
       /\ (lpc = "conn_enabled" /\ lpc' # lpc) => controllers'[li].enabled
       /\ (lpc = "disc_enabled" /\ lpc' # lpc) => ~controllers'[li].enabled
       /\ \A t \in Threads :
             (pc[t] = "en_loop" /\ ThreadStepped(t))
                => controllers'[ci[t]].enabled = (call[t].x # 0)
      ]_vars

(* XInputEnable(FALSE) is back, no other XInputEnable was made, and slot 0 *)
(* has since been connected and is enabled                                 *)
C10_Witness ==
    \E t \in Threads :
       /\ Returned(t) /\ call[t].op = "XInputEnable" /\ call[t].x = 0
       /\ \A u \in Threads \ {t} : call[u].op # "XInputEnable"
       /\ LinkBetweenReplies
       /\ controllers[0].connected
       /\ controllers[0].enabled

(* thread t returns from a call in this step *)
Returns(t) == ThreadStepped(t) /\ pc'[t] = "idle"

(* mask without its guide bit, 0x0400 *)
WithoutGuide(mask) ==
    IF (mask \div 1024) % 2 = 1 THEN mask - 1024 ELSE mask

(* C11: XInputGetState and XInputGetStateEx return the same code from the  *)
(* same position and slot state, and on success the state of the slot as   *)
(* it is copied: the same packet counter, axes and triggers, and the same  *)
(* button mask but for the guide bit, which XInputGetState alone clears.   *)
C11_GetStateVariants ==
    [][\A t \in Threads :
          (Returns(t) /\ call'[t].op \in GetStateOps) =>
             LET c == call'[t]
             IN  /\ ret'[t] =
                       IF ~c.ptr \/ IndexOutOfRange(c.index) THEN ERROR_BAD_ARGUMENTS
                       ELSE IF pc[t] = "gs_connected" THEN ERROR_DEVICE_NOT_CONNECTED
                       ELSE ERROR_SUCCESS
                 /\ ret'[t] # ERROR_SUCCESS => out'[t] = NoOut
                 /\ ret'[t] = ERROR_SUCCESS =>
                       LET s == controllers[c.index].state
                       IN  out'[t] =
                              [kind |-> "state",
                               state |->
                                  [s EXCEPT !.Gamepad.wButtons =
                                      IF c.op = "XInputGetState"
                                      THEN WithoutGuide(@) ELSE @]]]_vars

(* XInputGetState is back with the state of a slot that has buttons down  *)
C11_Witness ==
    \E t \in Threads :
       /\ Returned(t) /\ call[t].op = "XInputGetState"
       /\ ret[t] = ERROR_SUCCESS
       /\ out[t].state.Gamepad.wButtons = XINPUT_GAMEPAD_A
       /\ out[t].state.dwPacketNumber >= 1

(***************************************************************************)
(* The program when one thread does nothing but poll XInputGetKeystroke.   *)
(***************************************************************************)
KeystrokeInit == InitWith(KeystrokeWorkloads)

KeystrokeLink ==
    \/ LinkWSAStartup \/ LinkSocket \/ LinkConnectionRequest \/ LinkSendState
    \/ LinkRecvAck \/ LinkSetEvent
    \/ LinkRecvState \/ LinkReplyLoop \/ LinkReplyReady
    \/ LinkConnectState \/ LinkConnectCaps \/ LinkConnectConnected
    \/ LinkConnectEnabled \/ LinkDecodeStore \/ LinkDecodePacket

KeystrokeCaller(t) ==
    \/ CallStarting(t) \/ StartUpdateThreadOnce(t) \/ StartWait(t)
    \/ SetStateBody(t)
    \/ CallGetKeystroke(t) \/ GetKeystrokeCheck(t) \/ GetKeystrokeStore(t)

KeystrokeNext == KeystrokeLink \/ \E t \in Threads : KeystrokeCaller(t)

KeystrokeSpec == KeystrokeInit /\ [][KeystrokeNext]_vars

(***************************************************************************)
(* Keystrokes.                                                             *)
(***************************************************************************)
(* thread t makes the step of check_for_keystroke that compares the        *)
(* reading and the snapshot of a slot, or the one that stores and returns  *)
KeystrokeChecked(t) == pc[t] = "ks_check" /\ pc'[t] = "ks_store"
KeystrokeStored(t) == pc[t] = "ks_store" /\ pc'[t] # "ks_store"

HasBit(mask, bit) == (mask \div bit) % 2 = 1

(* the order in which the transitions of a slot are reported: the buttons, *)
(* then (15) the left trigger, (16) the right trigger, (17) the left       *)
(* stick, (18) the right stick                                             *)
ReportOrder ==
    << [bit |-> 1, vk |-> VK_PAD_DPAD_UP], [bit |-> 2, vk |-> VK_PAD_DPAD_DOWN],
       [bit |-> 4, vk |-> VK_PAD_DPAD_LEFT], [bit |-> 8, vk |-> VK_PAD_DPAD_RIGHT],
       [bit |-> 16, vk |-> VK_PAD_START], [bit |-> 32, vk |-> VK_PAD_BACK],
       [bit |-> 64, vk |-> VK_PAD_LTHUMB_PRESS],
       [bit |-> 128, vk |-> VK_PAD_RTHUMB_PRESS],
       [bit |-> 256, vk |-> VK_PAD_LSHOULDER], [bit |-> 512, vk |-> VK_PAD_RSHOULDER],
       [bit |-> 4096, vk |-> VK_PAD_A], [bit |-> 8192, vk |-> VK_PAD_B],
       [bit |-> 16384, vk |-> VK_PAD_X], [bit |-> 32768, vk |-> VK_PAD_Y] >>

(* the direction of a stick as the pair of its axis states *)
StickDirection(x, y) == << joystick_state(x), joystick_state(y) >>

(* the ranks in ReportOrder at which reading cur differs from snapshot last *)
PendingRanks(cur, last) ==
    {n \in 1 .. 14 : HasBit(cur.wButtons, ReportOrder[n].bit)
                     # HasBit(last.wButtons, ReportOrder[n].bit)}
    \cup (IF (cur.bLeftTrigger > 30) # (last.bLeftTrigger > 30) THEN {15} ELSE {})
    \cup (IF (cur.bRightTrigger > 30) # (last.bRightTrigger > 30) THEN {16} ELSE {})
    \cup (IF StickDirection(cur.sThumbLX, cur.sThumbLY)
             # StickDirection(last.sThumbLX, last.sThumbLY) THEN {17} ELSE {})
    \cup (IF StickDirection(cur.sThumbRX, cur.sThumbRY)
             # StickDirection(last.sThumbRX, last.sThumbRY) THEN {18} ELSE {})

(* the transitions slot i has not reported yet *)
Pending(i) == PendingRanks(controllers[i].state.Gamepad, controllers[i].last_keystroke)

(* keystroke k reports the transition of rank n of reading cur *)
ReportsRank(k, n, cur) ==
    CASE n <= 14 ->
           /\ k.VirtualKey = ReportOrder[n].vk
           /\ k.Flags = IF HasBit(cur.wButtons, ReportOrder[n].bit)
                        THEN XINPUT_KEYSTROKE_KEYDOWN ELSE XINPUT_KEYSTROKE_KEYUP
      [] n = 15 ->
           /\ k.VirtualKey = VK_PAD_LTRIGGER
           /\ k.Flags = IF cur.bLeftTrigger > 30
                        THEN XINPUT_KEYSTROKE_KEYDOWN ELSE XINPUT_KEYSTROKE_KEYUP
      [] n = 16 ->
           /\ k.VirtualKey = VK_PAD_RTRIGGER
           /\ k.Flags = IF cur.bRightTrigger > 30
                        THEN XINPUT_KEYSTROKE_KEYDOWN ELSE XINPUT_KEYSTROKE_KEYUP
      [] n = 17 -> k.VirtualKey \in VK_PAD_LTHUMB_UP .. VK_PAD_LTHUMB_UP + 7
      [] n = 18 -> k.VirtualKey \in VK_PAD_RTHUMB_UP .. VK_PAD_RTHUMB_UP + 7

(* the virtual keys thread t has been handed, in the order of its calls *)
KeysOf(t) == [n \in 1 .. Len(keys[t]) |-> keys[t][n].keystroke.VirtualKey]

(* C12: when several transitions of a slot are pending, a call of          *)
(* XInputGetKeystroke on it returns exactly one event, that of the first   *)
(* pending transition in the order d-pad up, down, left, right, START,     *)
(* BACK, left thumb, right thumb, left shoulder, right shoulder, A, B, X,  *)
(* Y, left trigger, right trigger, left stick, right stick: so no trigger  *)
(* or stick event is returned while a button bit differs.  A button or     *)
(* trigger transition that is reported is pending no more, and the others  *)
(* still are.                                                              *)
C12_KeystrokeOrder ==
    [][ \A t \in Threads :
          /\ (KeystrokeChecked(t) /\ Pending(ci[t]) # {}) =>
                LET n == Min(Pending(ci[t]))
                IN  /\ found'[t].ret = ERROR_SUCCESS
                    /\ ReportsRank(found'[t].keystroke, n,
                                   controllers[ci[t]].state.Gamepad)
                    /\ found'[t].keystroke.UserIndex = ci[t]
          /\ (KeystrokeChecked(t) /\ Pending(ci[t]) = {}) =>
                found'[t].ret = ERROR_EMPTY
          /\ (KeystrokeStored(t) /\ found[t].ret = ERROR_SUCCESS) =>
                LET before == PendingRanks(found[t].cur,
                                           controllers[ci[t]].last_keystroke)
                    after == PendingRanks(found[t].cur,
                                          controllers'[ci[t]].last_keystroke)
                    n == Min(before)
                IN  /\ pc'[t] = "idle"
                    /\ ret'[t] = ERROR_SUCCESS
                    /\ out'[t] = [kind |-> "keystroke",
                                  keystroke |-> found[t].keystroke]
                    /\ ReportsRank(found[t].keystroke, n, found[t].cur)
                    /\ n <= 16 => after = before \ {n}
                    /\ after \ {17, 18} = before \ {n, 17, 18}
      ]_vars

(* ten calls on a slot whose buttons, triggers and sticks have all changed *)
(* have returned the nine events in order, and then ERROR_EMPTY            *)
C12_Witness ==
    /\ scenario.name = "drain"
    /\ Len(keys["t1"]) = MaxKeystrokeCalls
    /\ SubSeq(KeysOf("t1"), 1, 9) =
          << VK_PAD_DPAD_UP, VK_PAD_DPAD_RIGHT, VK_PAD_START, VK_PAD_A, VK_PAD_B,
             VK_PAD_LTRIGGER, VK_PAD_RTRIGGER, VK_PAD_LTHUMB_UP,
             VK_PAD_RTHUMB_UP + 6 >>
    /\ \A n \in 1 .. 9 : keys["t1"][n].keystroke.Flags = XINPUT_KEYSTROKE_KEYDOWN
    /\ keys["t1"][MaxKeystrokeCalls].ret = ERROR_EMPTY

(* thread t's call of XInputGetKeystroke returns *)
KeystrokeReturned(t) == Len(keys'[t]) = Len(keys[t]) + 1

(* the record of the call that returns *)
Handed(t) == keys'[t][Len(keys'[t])]

(* k records a call that returned the event flags of virtual key vk *)
IsEvent(k, vk, flags) ==
    /\ k.ret = ERROR_SUCCESS
    /\ k.keystroke.VirtualKey = vk
    /\ k.keystroke.Flags = flags

(* the left stick of reading g is at (low, low) *)
LeftLowLow(g) == StickDirection(g.sThumbLX, g.sThumbLY) = << JS_STATE_LOW, JS_STATE_LOW >>
LeftHighHigh(g) == StickDirection(g.sThumbLX, g.sThumbLY) = << JS_STATE_HIGH, JS_STATE_HIGH >>

VK_PAD_LTHUMB_UPRIGHT == VK_PAD_LTHUMB_UP + 5
VK_PAD_LTHUMB_DOWNLEFT == VK_PAD_LTHUMB_UP + 7

(* thread t's last call returned the release of the up-right key of the    *)
(* left stick, on the reading its present call has found again, the stick  *)
(* at (low, low), and nothing but the stick is pending                     *)
AfterDiagonalRelease(t) ==
    /\ keys[t] # << >>
    /\ IsEvent(keys[t][Len(keys[t])], VK_PAD_LTHUMB_UPRIGHT, XINPUT_KEYSTROKE_KEYUP)
    /\ pc[t] = "ks_store"
    /\ keys[t][Len(keys[t])].cur = found[t].cur
    /\ LeftLowLow(found[t].cur)
    /\ PendingRanks(found[t].cur, controllers[ci[t]].last_keystroke) = {17}

(* C13 as stated: the call that follows the release of the old diagonal    *)
(* key at once, the state unchanged, returns ERROR_EMPTY                   *)
C13_Original ==
    [][ \A t \in Threads :
          (KeystrokeReturned(t) /\ AfterDiagonalRelease(t)) =>
             Handed(t).ret = ERROR_EMPTY
      ]_vars

(* C13: when the left stick has gone from (high, high) to (low, low) in    *)
(* one step, the first call of XInputGetKeystroke returns the release of   *)
(* the up-right key and sets the snapshot axes of the stick to 0; the call *)
(* that follows at once, the state unchanged, returns the press of the     *)
(* down-left key, and the one after that, the state still unchanged,       *)
(* returns ERROR_EMPTY                                                     *)
C13_DiagonalFlip ==
    [][ \A t \in Threads :
          KeystrokeReturned(t) =>
             LET k == Handed(t)
                 i == ci[t]
                 cur == found[t].cur
                 last == controllers[i].last_keystroke
                 last2 == controllers'[i].last_keystroke
                 pending == PendingRanks(cur, last)
             IN  /\ (pending = {17} /\ LeftHighHigh(last) /\ LeftLowLow(cur)) =>
                       /\ IsEvent(k, VK_PAD_LTHUMB_UPRIGHT, XINPUT_KEYSTROKE_KEYUP)
                       /\ last2.sThumbLX = 0 /\ last2.sThumbLY = 0
                 /\ AfterDiagonalRelease(t) =>
                       /\ IsEvent(k, VK_PAD_LTHUMB_DOWNLEFT, XINPUT_KEYSTROKE_KEYDOWN)
                       /\ last2.sThumbLX = cur.sThumbLX /\ last2.sThumbLY = cur.sThumbLY
                 /\ ( /\ Len(keys[t]) >= 2
                      /\ IsEvent(keys[t][Len(keys[t]) - 1], VK_PAD_LTHUMB_UPRIGHT,
                                 XINPUT_KEYSTROKE_KEYUP)
                      /\ IsEvent(keys[t][Len(keys[t])], VK_PAD_LTHUMB_DOWNLEFT,
                                 XINPUT_KEYSTROKE_KEYDOWN)
                      /\ keys[t][Len(keys[t]) - 1].cur = cur
                      /\ keys[t][Len(keys[t])].cur = cur
                      /\ pending = {} ) => k.ret = ERROR_EMPTY
      ]_vars

(* press of up-right, then on one reading with the stick at (low, low):    *)
(* release of up-right, press of down-left, ERROR_EMPTY                    *)
C13_Witness ==
    /\ scenario.name = "diagonal"
    /\ \E n \in 1 .. Len(keys["t1"]) - 3 :
          /\ IsEvent(keys["t1"][n], VK_PAD_LTHUMB_UPRIGHT, XINPUT_KEYSTROKE_KEYDOWN)
          /\ IsEvent(keys["t1"][n + 1], VK_PAD_LTHUMB_UPRIGHT, XINPUT_KEYSTROKE_KEYUP)
          /\ IsEvent(keys["t1"][n + 2], VK_PAD_LTHUMB_DOWNLEFT, XINPUT_KEYSTROKE_KEYDOWN)
          /\ keys["t1"][n + 3].ret = ERROR_EMPTY
          /\ LeftLowLow(keys["t1"][n + 1].cur)
          /\ keys["t1"][n + 2].cur = keys["t1"][n + 1].cur
          /\ keys["t1"][n + 3].cur = keys["t1"][n + 1].cur

(* thread t is in, or enters, a call XInputGetKeystroke(XUSER_INDEX_ANY) *)
AnyCall(c) == c.op = "XInputGetKeystroke" /\ c.index = XUSER_INDEX_ANY

(* C14: XInputGetKeystroke(XUSER_INDEX_ANY) tries the slots in index order *)
(* from slot 0: at a slot with a pending transition it returns that        *)
(* slot's first event, tagged with the slot's index; at a slot with none   *)
(* it goes on to the next, and it returns ERROR_EMPTY when it has found    *)
(* none at slot 3 either                                                   *)
C14_AnySlot ==
    [][ \A t \in Threads :
          /\ (pc[t] = "idle" /\ pc'[t] = "ks_check" /\ AnyCall(call'[t])) => ci'[t] = 0
          /\ (KeystrokeChecked(t) /\ AnyCall(call[t])) =>
                IF Pending(ci[t]) # {}
                THEN /\ found'[t].ret = ERROR_SUCCESS
                     /\ found'[t].keystroke.UserIndex = ci[t]
                     /\ ReportsRank(found'[t].keystroke, Min(Pending(ci[t])),
                                    controllers[ci[t]].state.Gamepad)
                ELSE found'[t].ret = ERROR_EMPTY
          /\ (KeystrokeStored(t) /\ AnyCall(call[t])) =>
                IF found[t].ret = ERROR_SUCCESS
                THEN /\ pc'[t] = "idle"
                     /\ ret'[t] = ERROR_SUCCESS
                     /\ out'[t] = [kind |-> "keystroke",
                                   keystroke |-> found[t].keystroke]
                ELSE IF ci[t] < XUSER_MAX_COUNT - 1
                THEN pc'[t] = "ks_check" /\ ci'[t] = ci[t] + 1
                ELSE pc'[t] = "idle" /\ ret'[t] = ERROR_EMPTY /\ out'[t] = NoOut
      ]_vars

(* slot 1 alone has changed: three calls have returned its three events,   *)
(* tagged 1, and the fourth, no slot having a transition left, ERROR_EMPTY *)
C14_Witness ==
    /\ scenario.name = "any"
    /\ Len(keys["t1"]) = MaxAnyCalls
    /\ \A n \in 1 .. 3 : /\ keys["t1"][n].ret = ERROR_SUCCESS
                         /\ keys["t1"][n].keystroke.UserIndex = 1
    /\ keys["t1"][1].keystroke.VirtualKey = VK_PAD_A
    /\ keys["t1"][MaxAnyCalls].ret = ERROR_EMPTY
    /\ \A i \in Slots : Pending(i) = {}
    /\ ~controllers[0].connected

(***************************************************************************)
(* The program on the codec workloads: the link decodes replies and sends  *)
(* frames while a thread sets a rumble target.                             *)
(***************************************************************************)
CodecInit == InitWith(CodecWorkloads)

CodecLink ==
    \/ LinkWSAStartup \/ LinkSocket \/ LinkConnectionRequest \/ LinkSendState
    \/ LinkRecvAck \/ LinkSetEvent
    \/ LinkRecvState \/ LinkReplyLoop \/ LinkReplyReady
    \/ LinkConnectState \/ LinkConnectCaps \/ LinkConnectConnected
    \/ LinkConnectEnabled \/ LinkDecodeStore \/ LinkDecodePacket

CodecCaller(t) ==
    \/ CallStarting(t) \/ StartUpdateThreadOnce(t) \/ StartWait(t)
    \/ SetStateBody(t)

CodecNext == CodecLink \/ \E t \in Threads : CodecCaller(t)

CodecSpec == CodecInit /\ [][CodecNext]_vars

(***************************************************************************)
(* The codec.                                                              *)
(***************************************************************************)
(* b * 65535 / 255 - 32768 with truncating division *)
AxisOfByte(b) == ((b * 65535) \div 255) - 32768

(* the axes of reading g are those of the axis bytes of sub-record rec *)
AxesDecoded(g, rec) ==
    /\ g.sThumbLX = AxisOfByte(Byte(rec, 5))
    /\ g.sThumbLY = AxisOfByte(Byte(rec, 6))
    /\ g.sThumbRX = AxisOfByte(Byte(rec, 7))
    /\ g.sThumbRY = AxisOfByte(Byte(rec, 8))

(* C15: when the decode of a sub-record is complete, each stick value of   *)
(* the slot is b * 65535 / 255 - 32768 for the axis byte b of the record,  *)
(* with truncating division, and lies in -32768 .. 32767: 0 gives -32768   *)
(* and 255 gives 32767                                                     *)
C15_AxisScale ==
    [][ \A i \in Slots :
          DecodeDone(i) =>
             LET g == controllers'[i].state.Gamepad
             IN  /\ AxesDecoded(g, buffer[i])
                 /\ \A v \in {g.sThumbLX, g.sThumbLY, g.sThumbRX, g.sThumbRY} :
                       v \in -32768 .. 32767
      ]_vars

(* the bits of the button byte and of the system byte of a sub-record *)
ButtonBitsOf(rec) ==
    LET on(k, bit, flag) == IF HasBit(Byte(rec, k), bit) THEN flag ELSE 0
    IN  on(2, 1, XINPUT_GAMEPAD_A) + on(2, 2, XINPUT_GAMEPAD_B)
        + on(2, 4, XINPUT_GAMEPAD_X) + on(2, 8, XINPUT_GAMEPAD_Y)
        + on(2, 16, XINPUT_GAMEPAD_RIGHT_SHOULDER)
        + on(2, 32, XINPUT_GAMEPAD_LEFT_SHOULDER)
        + on(2, 64, XINPUT_GAMEPAD_LEFT_THUMB)
        + on(2, 128, XINPUT_GAMEPAD_RIGHT_THUMB)
        + on(3, 1, XINPUT_GAMEPAD_START) + on(3, 2, XINPUT_GAMEPAD_BACK)

(* the direction bits of the d-pad codes 1 .. 8 *)
DirectionTable ==
    << XINPUT_GAMEPAD_DPAD_UP,
       XINPUT_GAMEPAD_DPAD_UP + XINPUT_GAMEPAD_DPAD_RIGHT,
       XINPUT_GAMEPAD_DPAD_RIGHT,
       XINPUT_GAMEPAD_DPAD_RIGHT + XINPUT_GAMEPAD_DPAD_DOWN,
       XINPUT_GAMEPAD_DPAD_DOWN,
       XINPUT_GAMEPAD_DPAD_DOWN + XINPUT_GAMEPAD_DPAD_LEFT,
       XINPUT_GAMEPAD_DPAD_LEFT,
       XINPUT_GAMEPAD_DPAD_LEFT + XINPUT_GAMEPAD_DPAD_UP >>

DirectionBitsOf(rec) ==
    IF Byte(rec, 4) \in 1 .. 8 THEN DirectionTable[Byte(rec, 4)] ELSE 0

(* C16: when the decode of a sub-record whose connectivity byte is set is  *)
(* complete, the button mask of the slot is exactly the mapped bits of the *)
(* button byte, START and BACK for bits 0 and 1 of the system byte, and    *)
(* the direction bits of the d-pad code (none for 0 and for a code outside *)
(* 1 .. 8): nothing of the mask the slot had before is kept, and the guide *)
(* bit is not set                                                          *)
C16_ButtonMask ==
    [][ \A i \in Slots :
          DecodeDone(i) =>
             /\ Byte(buffer[i], 1) # 0
             /\ controllers'[i].state.Gamepad.wButtons =
                   ButtonBitsOf(buffer[i]) + DirectionBitsOf(buffer[i])
             /\ ~HasBit(controllers'[i].state.Gamepad.wButtons, XINPUT_GAMEPAD_GUIDE)
      ]_vars

(* slot 0 had A, X, Y, right shoulder, both thumbs, START and BACK after   *)
(* its first reply; its second, with B, left shoulder and d-pad code 2,    *)
(* has left it B, left shoulder, up and right                              *)
C16_Witness ==
    /\ scenario.name = "redecode"
    /\ \E s \in snapshots[0] :
          /\ s.dwPacketNumber = 1
          /\ s.Gamepad.wButtons = ButtonBitsOf(RecByte(221))
          /\ s.Gamepad.wButtons = 54000
    /\ controllers[0].state.dwPacketNumber = 2
    /\ buffer[0] = RecByte(34)
    /\ controllers[0].state.Gamepad.wButtons =
          XINPUT_GAMEPAD_B + XINPUT_GAMEPAD_LEFT_SHOULDER
          + XINPUT_GAMEPAD_DPAD_UP + XINPUT_GAMEPAD_DPAD_RIGHT

(* the frame is sent *)
StateFrameSent == lpc = "send" /\ lpc' = "recv"

C18_CapsIffConnected ==
    \A i \in Slots :
       controllers[i].crit = "free" =>
          (controllers[i].caps # ZeroCaps <=> controllers[i].connected)

(* slot 0 was connected and decoded, and the timeouts have disconnected    *)
(* every slot: its capabilities were set by a reply and zeroed again       *)
C18_Witness ==
    /\ silent > TimeoutLimit
    /\ \E s \in snapshots[0] : s.dwPacketNumber >= 1
    /\ controllers[0].crit = "free"
    /\ ~controllers[0].connected
    /\ controllers[0].caps = ZeroCaps
    /\ controllers[0].state.dwPacketNumber >= 1

(* the critical section of slot i is held at the step, by its writer: it   *)
(* is held before or after it, or the step is the one of                   *)
(* read_controller_state that enters, increments the packet counter and    *)
(* leaves                                                                  *)
GuardHeldAtStep(i) ==
    \/ controllers[i].crit # "free"
    \/ controllers'[i].crit # "free"
    \/ DecodeDone(i)

(* the fields of a slot that are to be written inside the critical section *)
GuardedFields(c) ==
    << c.caps, c.state, c.last_keystroke, c.connected, c.enabled >>

(* C19: a step that changes the capabilities, the state, the keystroke     *)
(* snapshot, the connected flag or the enabled flag of a slot is made by a *)
(* thread that holds the critical section of the slot; the vibration alone *)
(* is written outside it                                                   *)
C19_WritesUnderGuard ==
    [][ \A i \in Slots :
          GuardedFields(controllers'[i]) # GuardedFields(controllers[i])
             => GuardHeldAtStep(i)
      ]_vars

(* the positions at which the link sends, receives or sleeps, and those at *)
(* which a caller waits on start_event or on xinput_is_ready               *)
LinkBlockingPositions == {"connreq", "send", "recv", "setevent", "to_sleep"}
CallerBlockingPositions == {"start", "start_wait", "gs_wait", "gc_wait"}

(* the slots whose critical section who holds *)
HeldBy(who) == {i \in Slots : controllers[i].crit = who}

(* C20: no thread holds two critical sections at once: the link holds one  *)
(* only inside controller_connect and controller_disconnect, a caller only *)
(* inside the copy of XInputGetCapabilitiesEx, so none is held where a     *)
(* thread sends, receives, sleeps or waits; and the holder of a critical   *)
(* section can always take its next step, so that no thread waits for a    *)
(* critical section for ever                                               *)
C20_GuardsHeldBriefly ==
    /\ Cardinality(HeldBy("link")) <= 1
    /\ HeldBy("link") # {} =>
          /\ HeldBy("link") = {li}
          /\ lpc \in {"conn_caps", "conn_connected", "conn_enabled",
                      "disc_enabled", "disc_caps"}
          /\ lpc \notin LinkBlockingPositions
          /\ ~crashed => ENABLED LinkNext
    /\ \A t \in Threads :
          /\ Cardinality(HeldBy(t)) <= 1
          /\ HeldBy(t) # {} =>
                /\ HeldBy(t) = {call[t].index}
                /\ pc[t] = "gc_body"
                /\ pc[t] \notin CallerBlockingPositions
                /\ ~crashed => ENABLED GetCapabilitiesBody(t)

(* a caller waits to enter the critical section of a slot that the link    *)
(* holds in controller_disconnect                                          *)
C20_Witness ==
    /\ \E t \in Threads :
          /\ pc[t] = "gc_enter"
          /\ controllers[call[t].index].crit = "link"
          /\ lpc \in {"disc_enabled", "disc_caps"}
          /\ li = call[t].index

(***************************************************************************)
(* The program when the server falls silent and recvfrom fails for other   *)
(* reasons than the timeout as well.                                       *)
(***************************************************************************)
TimeoutInit == InitWith({WorkloadLapse})

TimeoutCaller(t) ==
    \/ CallStarting(t) \/ StartUpdateThreadOnce(t) \/ StartWait(t)
    \/ SetStateBody(t)

TimeoutNext == LinkNext \/ \E t \in Threads : TimeoutCaller(t)

TimeoutSpec == TimeoutInit /\ [][TimeoutNext]_vars

(***************************************************************************)
(* The timeout counter.                                                    *)
(***************************************************************************)
(* the link is in the loop of the timeout branch, or in a                  *)
(* controller_disconnect called from it                                    *)
TimeoutDisconnecting ==
    \/ lpc = "to_loop"
    \/ lpc \in {"disc_connected", "disc_enabled", "disc_caps"} /\ lafter = "to_loop"

(* the link is processing a datagram it has received *)
ReceiveProcessing ==
    \/ lpc \in {"setevent", "rep_loop", "conn_state", "conn_caps",
                "conn_connected", "conn_enabled", "decode"}
    \/ lpc \in {"disc_connected", "disc_enabled", "disc_caps"} /\ lafter = "rep_loop"

(* the step is a recvfrom that times out, before the 61st in a row *)
ReceiveTimedOut == silent' = silent + 1

(* C21 as stated, its last clause: no slot is disconnected by the timeout  *)
(* branch while 60 or fewer receive timeouts in a row have occurred        *)
C21_Original ==
    TimeoutDisconnecting => silent > TimeoutLimit

(* C21: each receive timeout adds one to timeoutCounter, every datagram    *)
(* received sets it to 0, and a receive failure other than the timeout     *)
(* leaves it as it is; the link is in the mass disconnect exactly while    *)
(* the counter exceeds 60, and leaves it by raising xinput_is_ready with   *)
(* every slot disconnected and the counter back at 0                       *)
C21_TimeoutCounter ==
    [][ /\ ReceiveTimedOut => timeoutCounter' = timeoutCounter + 1
        /\ ReceiveProcessing' => timeoutCounter' = 0
        /\ (lpc = "recv" /\ lpc' = "send" /\ silent' = 0 /\ silent # 0)
              => timeoutCounter' = timeoutCounter
        /\ TimeoutDisconnecting' <=> timeoutCounter' > TimeoutLimit
        /\ (TimeoutDisconnecting /\ ~TimeoutDisconnecting')
              => /\ \A i \in Slots : ~controllers'[i].connected
                 /\ xinput_is_ready'
                 /\ timeoutCounter' = 0
                 /\ lpc' = "to_sleep"
      ]_vars

(* slot 0 was connected, and the timeout branch has disconnected it after  *)
(* timeouts that a receive failure of another kind separated: fewer than   *)
(* 61 in a row                                                             *)
C21_Witness ==
    /\ lpc = "to_sleep"
    /\ pulsed
    /\ snapshots[0] # {}
    /\ ~controllers[0].connected
    /\ timeoutCounter = 0
    /\ silent > 0 /\ silent <= TimeoutLimit

(***************************************************************************)
(* The readiness flag.                                                     *)
(***************************************************************************)
(* the step ends the processing of a received datagram of the              *)
(* state-exchange kind                                                     *)
StateReplyProcessed == lpc = "rep_loop" /\ lpc' = "send"

(* the step ends the processing of a received datagram of another kind:    *)
(* the reply to the connection request, or one the switch ignores          *)
OtherReplyProcessed ==
    \/ lpc = "setevent" /\ lpc' = "send"
    \/ LinkRecvAck /\ lpc' = "send"

(* the step ends the Sleep(250) of the timeout branch *)
PauseEnded == lpc = "to_sleep" /\ lpc' = "send"

(* xinput_is_ready is lowered only by the step that ends the pause *)
LoweredOnlyByPause ==
    (xinput_is_ready /\ ~xinput_is_ready') => (PauseEnded /\ pulsed)

(* C22 as stated: xinput_is_ready is true after every receive cycle of the *)
(* link that received a datagram, and is lowered only at the end of the    *)
(* timeout pause                                                           *)
C22_Original ==
    [][ /\ (StateReplyProcessed \/ OtherReplyProcessed) => xinput_is_ready'
        /\ LoweredOnlyByPause
      ]_vars

(* C22: xinput_is_ready is true after every receive cycle that processed a *)
(* state-exchange reply; a reply of another kind, the reply to the         *)
(* connection request included, leaves the flag as it was; the flag goes   *)
(* from true to false only at the end of the pause of the timeout branch,  *)
(* which lowers it                                                         *)
C22_ReadyFlag ==
    [][ /\ StateReplyProcessed => xinput_is_ready'
        /\ OtherReplyProcessed => xinput_is_ready' = xinput_is_ready
        /\ PauseEnded => ~xinput_is_ready'
        /\ LoweredOnlyByPause
      ]_vars

(* a state-exchange reply has raised the flag, and the pause that followed *)
(* the mass disconnect has lowered it again                                *)
C22_Witness ==
    /\ first_snapshot
    /\ pulsed
    /\ ~xinput_is_ready
    /\ lpc = "send"
    /\ \A i \in Slots : ~controllers[i].connected

(***************************************************************************)
(* The lazy start.                                                         *)
(***************************************************************************)
(* the positions of a caller inside start_update_thread *)
StartPositions == {"start", "start_wait"}

(* thread t leaves start_update_thread at the step *)
PassesStart(t) == pc[t] \in StartPositions /\ pc'[t] \notin StartPositions

(* the calls that begin with start_update_thread *)
StartingOps == QueryOps \cup {"XInputEnable", "XInputSetState"}

(* the step creates the link thread, or the start event *)
CreatesLink == lpc = "none" /\ lpc' # "none"
CreatesEvent == start_event = "null" /\ start_event' # "null"

(* C23: however the first calls of several threads to XInputEnable,        *)
(* XInputSetState, XInputGetState(Ex) and XInputGetCapabilities(Ex)        *)
(* interleave, the link thread and start_event are created by the one step *)
(* that begins the initialiser, which is never begun again; and a call     *)
(* leaves start_update_thread only when the initialiser, its wait on       *)
(* start_event included, has returned                                      *)
C23_StartOnce ==
    [][ /\ (CreatesLink \/ CreatesEvent) =>
              (init_once = "uninit" /\ init_once' = "running")
        /\ init_once # "uninit" => init_once' # "uninit"
        /\ lpc # "none" => lpc' # "none"
        /\ start_event # "null" => start_event' # "null"
        /\ (init_once = "running" /\ init_once' = "done") =>
              \E t \in Threads : pc[t] = "start_wait" /\ pc'[t] # "start_wait"
        /\ \A t \in Threads :
              /\ PassesStart(t) => (init_once' = "done" /\ start_event' # "null")
              /\ ( /\ call'[t].op \in StartingOps
                    /\ pc'[t] # pc[t]
                    /\ pc'[t] = AfterStart(call'[t].op) )
                    => pc[t] \in StartPositions
      ]_vars

(* one thread runs the initialiser and waits on start_event while another  *)
(* has arrived in start_update_thread and is held there                    *)
C23_Witness ==
    \E t, u \in Threads :
       /\ t # u
       /\ pc[t] = "start_wait"
       /\ pc[u] = "start"
       /\ init_once = "running"
       /\ lpc # "none"

(***************************************************************************)
(* The handshake.                                                          *)
(***************************************************************************)
(* the kind of a frame handed to sendto *)
FrameKind(frame) == frame[1]

(* the step is the sendto before the loop, or the sendto of the loop *)
SendsConnectionRequest == lpc = "connreq" /\ lpc' = "send"
SendsStateExchange == lpc = "send" /\ lpc' = "recv"

(* the state-exchange frame of the step is the first the link sends *)
FirstStateExchange ==
    /\ SendsStateExchange
    /\ sent # NoFrame
    /\ FrameKind(sent) = REQUEST_GET_CONNECTION

(* C24 as stated: the connection request is the first frame, and a         *)
(* state-exchange frame is sent only once a reply to the connection        *)
(* request has been received                                               *)
C24_Original ==
    [][ /\ SendsConnectionRequest =>
              (sent = NoFrame /\ FrameKind(sent') = REQUEST_GET_CONNECTION)
        /\ SendsStateExchange =>
              (FrameKind(sent') = REQUEST_GET_CONTROLLER_STATE /\ handshaken)
      ]_vars

(* C24: the link sends its one connection request first and then, without  *)
(* waiting for a reply, its first state-exchange frame; every later frame  *)
(* is a state-exchange frame; a reply to the connection request is         *)
(* received inside the loop, after a state-exchange frame, and it is what  *)
(* signals start_event                                                     *)
C24_Handshake ==
    [][ /\ SendsConnectionRequest =>
              /\ sent = NoFrame
              /\ FrameKind(sent') = REQUEST_GET_CONNECTION
              /\ ~handshaken
        /\ SendsStateExchange =>
              /\ sent # NoFrame
              /\ FrameKind(sent') = REQUEST_GET_CONTROLLER_STATE
        /\ FirstStateExchange =>
              /\ ~handshaken
              /\ nreplies = 0 /\ silent = 0
              /\ start_event # "set"
        /\ (sent # NoFrame /\ sent' # sent) => SendsStateExchange
        /\ (~handshaken /\ handshaken') =>
              /\ lpc = "recv" /\ lpc' = "setevent"
              /\ FrameKind(sent) = REQUEST_GET_CONTROLLER_STATE
        /\ (lpc = "setevent" /\ lpc' # lpc) => start_event' = "set"
        /\ (start_event # "set" /\ start_event' = "set") =>
              (handshaken /\ lpc = "setevent")
      ]_vars

(* the link has sent state-exchange frames, has then received the reply to *)
(* the connection request and has signalled start_event                    *)
C24_Witness ==
    /\ handshaken
    /\ start_event = "set"
    /\ sent # NoFrame
    /\ FrameKind(sent) = REQUEST_GET_CONTROLLER_STATE
    /\ lpc = "send"

(***************************************************************************)
(* The capabilities a call returns.                                        *)
(***************************************************************************)
(* C25: the capabilities that XInputGetCapabilities(Ex) returns with       *)
(* success for a slot of the table are those controller_connect computed:  *)
(* a gamepad with force feedback, never the zeroed capabilities of a       *)
(* disconnected slot, whatever the link does to the slot during the call   *)
C25_CapabilitiesOfConnected ==
    \A t \in Threads :
       ( /\ Returned(t) /\ ValidCall(t, CapsOps)
         /\ ret[t] = ERROR_SUCCESS )
          => /\ out[t].kind \in {"caps", "caps_ex"}
             /\ out[t].caps # ZeroCaps
             /\ out[t].caps = controller_check_caps
             /\ out[t].caps.Type = XINPUT_DEVTYPE_GAMEPAD
             /\ out[t].caps.SubType = XINPUT_DEVSUBTYPE_GAMEPAD
             /\ And16(out[t].caps.Flags, XINPUT_CAPS_FFB_SUPPORTED) # 0

(***************************************************************************)
(* The program when callers poll XInputGetKeystroke with no regard to the  *)
(* link or to each other.                                                  *)
(***************************************************************************)
RaceInit == InitWith({WorkloadHeld, WorkloadPollers})

RaceSpec == RaceInit /\ [][KeystrokeNext]_vars

(***************************************************************************)
(* A held button while its reply is decoded.                               *)
(***************************************************************************)
(* the link is storing a reply into the reading of slot i *)
Decoding(i) == lpc = "decode" /\ li = i

(* the last reading of slot i that the link completed, if any *)
CompleteReadings(i) ==
    {s \in snapshots[i] : s.dwPacketNumber = controllers[i].state.dwPacketNumber}

(* entry n of buttons[] is down in the last complete reading of slot i and *)
(* in the reply the link is decoding                                       *)
HeldAcross(i, n) ==
    /\ Decoding(i)
    /\ \E s \in CompleteReadings(i) :
          HasBit(s.Gamepad.wButtons, KeystrokeButtons[n].mask)
    /\ HasBit(DecodedGamepad(buffer[i], scenario.build).wButtons,
              KeystrokeButtons[n].mask)

(* C26: when a button is held in both the previous and the newly received  *)
(* reply, no XInputGetKeystroke call that returns while the link decodes   *)
(* the new reply returns a release of that button.                         *)
C26_HeldButtonKept ==
    [][ \A t \in Threads : \A n \in 1 .. Len(KeystrokeButtons) :
          (KeystrokeStored(t) /\ HeldAcross(ci[t], n))
          => ~IsEvent(found[t], KeystrokeButtons[n].vk, XINPUT_KEYSTROKE_KEYUP)
      ]_vars

(***************************************************************************)
(* Two threads polling one slot.                                           *)
(***************************************************************************)
(* threads t and u are both in check_for_keystroke on one slot, both have  *)
(* compared the same reading, one the link had completed, and neither has  *)
(* stored yet: the reading still holds exactly one transition the snapshot *)
(* has not caught up with                                                  *)
PollingTogether(t, u) ==
    /\ t # u
    /\ pc[t] = "ks_store" /\ pc[u] = "ks_store"
    /\ ci[u] = ci[t]
    /\ found[u].cur = found[t].cur
    /\ \E s \in snapshots[ci[t]] : s.Gamepad = found[t].cur
    /\ Cardinality(PendingRanks(found[t].cur,
                                controllers[ci[t]].last_keystroke)) = 1

(* C27: when two threads run XInputGetKeystroke on one slot concurrently   *)
(* while its reading holds exactly one pending transition, and one of them *)
(* returns that transition, the other gets ERROR_EMPTY.                    *)
C27_OneTaker ==
    [][ \A t, u \in Threads :
          (PollingTogether(t, u) /\ KeystrokeStored(t)
             /\ ret'[t] = ERROR_SUCCESS)
          => found[u].ret = ERROR_EMPTY
      ]_vars

(***************************************************************************)
(* The events of one virtual key, and of one reading.                      *)
(***************************************************************************)
(* the most events one reading can give: 14 buttons, 2 triggers, a release *)
(* and a press for each of the 2 sticks                                    *)
MaxEventsOfReading == Len(KeystrokeButtons) + 2 + 2 * 2

(* the events of the virtual key and slot of record k among the calls      *)
(* thread t has made                                                       *)
EarlierEvents(t, k) ==
    SelectSeq(keys[t],
              LAMBDA e : /\ e.ret = ERROR_SUCCESS
                         /\ e.keystroke.VirtualKey = k.keystroke.VirtualKey
                         /\ e.keystroke.UserIndex = k.keystroke.UserIndex)

(* the calls of thread t, the latest backwards, that found reading cur *)
CallsOnReading(t, cur) ==
    LET n == Len(keys[t])
        from == Min({m \in 1 .. n + 1 : \A j \in m .. n : keys[t][j].cur = cur})
    IN  SubSeq(keys[t], from, n)

(* C28: with calls made one at a time, the events a thread is given for    *)
(* one virtual key of a slot alternate press, release, press, ..., the     *)
(* first being a press; while the calls find one reading, at most 20       *)
(* events are returned, and once a call has returned ERROR_EMPTY the calls *)
(* that follow return ERROR_EMPTY as well.                                 *)
C28_Alternation ==
    [][ \A t \in Threads :
          KeystrokeReturned(t) =>
             LET k == keys'[t][Len(keys'[t])]
                 earlier == EarlierEvents(t, k)
                 run == CallsOnReading(t, k.cur)
                 events == SelectSeq(run, LAMBDA e : e.ret = ERROR_SUCCESS)
             IN  /\ k.ret = ERROR_SUCCESS =>
                      /\ k.keystroke.Flags =
                            IF Len(earlier) = 0 \/ earlier[Len(earlier)].keystroke.Flags
                                                   = XINPUT_KEYSTROKE_KEYUP
                            THEN XINPUT_KEYSTROKE_KEYDOWN
                            ELSE XINPUT_KEYSTROKE_KEYUP
                      /\ Len(events) < MaxEventsOfReading
                 /\ (Len(run) > 0 /\ run[Len(run)].ret = ERROR_EMPTY)
                      => k.ret = ERROR_EMPTY
      ]_vars

(* the polling thread was given the four events of the first reading, then *)
(* twenty events of the second, a release before each press of a key that  *)
(* was down, and then ERROR_EMPTY twice                                    *)
C28_Witness ==
    /\ scenario.name = "sweep"
    /\ Len(keys["t1"]) = MaxSweepCalls
    /\ LET run == CallsOnReading("t1", controllers[0].state.Gamepad)
       IN  /\ Len(run) = MaxEventsOfReading + 2
           /\ \A n \in 1 .. MaxEventsOfReading : run[n].ret = ERROR_SUCCESS
           /\ run[MaxEventsOfReading + 1].ret = ERROR_EMPTY
           /\ run[MaxEventsOfReading + 2].ret = ERROR_EMPTY
           /\ IsEvent(run[1], VK_PAD_DPAD_UP, XINPUT_KEYSTROKE_KEYUP)
           /\ IsEvent(run[17], VK_PAD_LTHUMB_UPRIGHT, XINPUT_KEYSTROKE_KEYUP)
           /\ IsEvent(run[18], VK_PAD_LTHUMB_DOWNLEFT, XINPUT_KEYSTROKE_KEYDOWN)

====
